---- MODULE Spec2Model ----
(***************************************************************************)
(* Model of the shell command execution pipeline of the 'Shell commands'   *)
(* plugin: ShellCommandExecutor (preaction pipeline, executeShellCommand,  *)
(* buffered and realtime output handling, execution notification),        *)
(* Shell.getWorkingDirectory and the command palette callbacks of         *)
(* SC_Plugin and ShellCommandsPlugin with their caches.                    *)
(***************************************************************************)
EXTENDS Integers, Sequences, FiniteSets, TLC

VARIABLES
    settings,                      \* plugin.settings (working_directory)
    vaultAbsolutePath,             \* getVaultAbsolutePath(plugin.app)
    file_system,                   \* what the file system holds at a path
    t_shell_command,               \* configuration of the executed TShellCommand
    shell,                         \* the Shell of the command
    pc,                            \* position of the execution attempt
    parsing_process,               \* state of the ShellCommandParsingProcess
    preaction_pipeline,            \* the steps chained with .then(), in order
    next_step,                     \* index of the next step of the pipeline
    pipeline_value,                \* value the last settled step resolved with
    in_progress,                   \* steps whose promise is not yet settled
    steps,                         \* history: steps performed and their results
    shell_command_parsing_result,  \* <<>> or <<the ShellCommandParsingResult>>
    notices,                       \* error notices shown to the user, in order
    calls,                         \* how many times each collaborator was called
    child_process,                 \* <<>> or <<the spawned ChildProcess>>
    dispatched,                    \* calls of handleBufferedOutput(), in order
    thrown,                        \* exceptions propagated to the caller
    translated,                    \* <<>> or <<result of Shell.getWorkingDirectory()>>
    raised,                        \* exceptions raised inside the try block
    notification,                  \* the execution notification
    timer,                         \* the timeout of the 'if-long' notification
    streams,                       \* stdout and stderr of the ChildProcess
    outputChannels,                \* stream name -> code of its OutputChannel
    handling,                      \* handleRealtime() calls not yet settled
    events,                        \* history of the calls made to OutputChannels
    plugin_version,                \* which plugin class registered the commands
    cached_parsing_processes,      \* SC_Plugin: shell command id -> preparsed process
    preparsed_shell_command_configurations, \* ShellCommandsPlugin: id -> preparsed
    parsing_processes,             \* every ParsingProcess created, in order
    attempts,                      \* the executions ShellCommandsPlugin started
    obsidian_commands,             \* the name each command shows in the palette
    previews,                      \* ShellCommandsPlugin: id -> its latest preview
    escaped,                       \* <<>> or <<a call of Shell.escapeValue()>>
    version_support,               \* <<>> or <<a call of isSettingsVersionSupported()>>
    plugin,                        \* SC_Plugin.onload(): position and what it did
    workspace,                     \* layout, callbacks, timeouts, registered SC_Events
    prompt_field,                  \* a PromptField: value, parsed value, errors, preview
    validation,                    \* <<>> or <<a call of PromptField.validate()>>
    shell_commands,                \* the IDs of the existing shell commands
    generated_ids,                 \* calls of generateNewShellCommandID(), in order
    outputHandlers,                \* the output handlers each execution defined, in order
    error_message_duration,        \* settings.error_message_duration, in seconds
    duration_edit                  \* <<>> or <<the latest edit of the duration field>>

vars == <<settings, vaultAbsolutePath, file_system, t_shell_command, shell, pc, parsing_process,
          preaction_pipeline, next_step, pipeline_value, in_progress, steps,
          shell_command_parsing_result, notices, calls, child_process,
          dispatched, thrown, translated, raised, notification, timer, streams,
          outputChannels, handling, events, plugin_version,
          cached_parsing_processes, preparsed_shell_command_configurations,
          parsing_processes, attempts, obsidian_commands, previews, escaped,
          version_support, plugin, workspace, prompt_field, validation,
          shell_commands, generated_ids, outputHandlers,
          error_message_duration, duration_edit>>

execVars == <<pc, parsing_process, preaction_pipeline, next_step, pipeline_value,
              in_progress, steps, shell_command_parsing_result, notices, calls,
              child_process, dispatched, thrown>>

configVars == <<settings, vaultAbsolutePath, file_system, t_shell_command>>

notificationVars == <<notification, timer>>

realtimeVars == <<streams, outputChannels, handling, events>>

paletteVars == <<plugin_version, cached_parsing_processes,
                 preparsed_shell_command_configurations, parsing_processes,
                 attempts, obsidian_commands>>

startupVars == <<plugin, workspace>>

promptVars == <<prompt_field, validation>>

idVars == <<shell_commands, generated_ids>>

\* What the execution of shell commands and the command palette work on.
coreVars == <<execVars, configVars, shell, translated, raised, notificationVars,
              realtimeVars, paletteVars, previews>>

\* What the other parts of the plugin work on.
laterVars == <<escaped, version_support, startupVars, promptVars, idVars,
               outputHandlers, error_message_duration, duration_edit>>

tabVars == <<outputHandlers, error_message_duration, duration_edit>>

-----------------------------------------------------------------------------
(* Bounds *)

MaxPreactions == 2
MaxLen == 2
MaxExitCode == 2
MaxChunks == 2
MaxCommands == 2
MaxProcesses == 2
MaxAttempts == 2
MaxCalls == 2
MaxId == 10

\* error_message_duration: the default of DEFAULT_SETTINGS and the limits
\* of the settings field, in seconds.
DefaultErrorMessageDuration == 20
MinErrorMessageDuration == 1
MaxErrorMessageDuration == 180

-----------------------------------------------------------------------------
(* Values *)

\* The exit code of a process terminated by a signal (null in the source).
Null == -1

\* The step of the pipeline that asks the confirmation; Preactions are 1..n.
ConfirmationStep == 0

Chars == {" ", "x"}

Strings == UNION {[1..n -> Chars] : n \in 0..MaxLen}

\* The raw values of variables: letters, spaces and quotes.
RawValues == UNION {[1..n -> {" ", "x", "'"}] : n \in 0..MaxLen}

ExitCodes == {Null} \cup (0..MaxExitCode)

PlatformIds == <<"darwin", "linux", "win32">>

CurrentPlatform == "linux"

SEP == "/"

Placeholder == "{{shell_command_content}}"

-----------------------------------------------------------------------------
(* Pure helpers *)

RECURSIVE trimStart(_)
trimStart(s) == IF s # <<>> /\ Head(s) = " " THEN trimStart(Tail(s)) ELSE s

RECURSIVE trimEnd(_)
trimEnd(s) ==
    IF s # <<>> /\ s[Len(s)] = " " THEN trimEnd(SubSeq(s, 1, Len(s) - 1)) ELSE s

trim(s) == trimEnd(trimStart(s))

getPlatformName(platform_id) ==
    CASE platform_id = "darwin" -> "macOS"
      [] platform_id = "linux"  -> "Linux"
      [] platform_id = "win32"  -> "Windows"

getCurrentPlatformName == getPlatformName(CurrentPlatform)

RECURSIVE joinAnd(_)
joinAnd(names) ==
    IF Len(names) = 0 THEN <<>>
    ELSE IF Len(names) = 1 THEN names
    ELSE <<Head(names), " and ">> \o joinAnd(Tail(names))

RECURSIVE filterNonEmpty(_, _)
filterNonEmpty(ids, versions) ==
    IF ids = <<>> THEN <<>>
    ELSE (IF trim(versions[Head(ids)]) # <<>> THEN <<Head(ids)>> ELSE <<>>)
         \o filterNonEmpty(Tail(ids), versions)

getNonEmptyPlatformIds(tsc) ==
    filterNonEmpty(PlatformIds, tsc.platform_specific_shell_commands)

RECURSIVE wrapShellCommandContent(_, _)
wrapShellCommandContent(content, wrapper) ==
    IF wrapper = <<>> THEN <<>>
    ELSE (IF Head(wrapper) = Placeholder THEN content ELSE <<Head(wrapper)>>)
         \o wrapShellCommandContent(content, Tail(wrapper))

(* Paths are sequences of tokens: the separator and names. *)

isAbsolute(p) == p # <<>> /\ Head(p) = SEP

RECURSIVE segments(_, _)
segments(p, cur) ==
    IF p = <<>> THEN (IF cur = <<>> THEN <<>> ELSE <<cur>>)
    ELSE IF Head(p) = SEP
         THEN (IF cur = <<>> THEN <<>> ELSE <<cur>>) \o segments(Tail(p), <<>>)
         ELSE segments(Tail(p), cur \o <<Head(p)>>)

RECURSIVE resolveDots(_, _)
resolveDots(segs, acc) ==
    IF segs = <<>> THEN acc
    ELSE IF Head(segs) = <<".">> THEN resolveDots(Tail(segs), acc)
    ELSE IF Head(segs) = <<"..">>
         THEN resolveDots(Tail(segs),
                          IF acc = <<>> THEN acc ELSE SubSeq(acc, 1, Len(acc) - 1))
         ELSE resolveDots(Tail(segs), Append(acc, Head(segs)))

RECURSIVE joinSegments(_)
joinSegments(segs) ==
    IF segs = <<>> THEN <<>>
    ELSE IF Len(segs) = 1 THEN Head(segs)
    ELSE Head(segs) \o <<SEP>> \o joinSegments(Tail(segs))

normalize(p) ==
    LET body == joinSegments(resolveDots(segments(p, <<>>), <<>>))
    IN  IF isAbsolute(p) THEN <<SEP>> \o body
        ELSE IF body = <<>> THEN <<".">> ELSE body

join(a, b) == normalize(a \o <<SEP>> \o b)

-----------------------------------------------------------------------------
(* ShellCommandExecutor: helpers *)

Notice(text, dir, names) == [text |-> text, dir |-> dir, names |-> names]

\* ParsingProcess.displayErrorMessages(): the parsing errors shown as a notice.
displayErrorMessages == Notice("parsing errors", <<>>, <<>>)

NoCalls ==
    [process |-> 0, confirmation_modal |-> 0, perform |-> 0, processRest |-> 0,
     executeShellCommand |-> 0, existsSync |-> 0,
     setEnvironmentVariablePathAugmentation |-> 0, spawnChildProcess |-> 0,
     stdin_write |-> 0, stdin_end |-> 0, handleBufferedOutput |-> 0,
     handleRealtimeOutput |-> 0]

Called(name) == [calls EXCEPT ![name] = @ + 1]

\* ShellCommandExecutor.getWorkingDirectory(plugin): no path translation here.
getWorkingDirectory(plugin_settings, vault) ==
    LET working_directory == plugin_settings.working_directory
    IN  IF Len(working_directory) = 0 THEN vault
        ELSE IF ~isAbsolute(working_directory) THEN join(vault, working_directory)
        ELSE working_directory

getErrorMessageForEmptyShellCommand(tsc) ==
    LET ids == getNonEmptyPlatformIds(tsc)
    IN  IF Len(ids) > 0
        THEN Notice("The shell command does not have a version for",
                    <<>>,
                    <<getCurrentPlatformName,
                      IF Len(ids) > 1 THEN "versions" ELSE "a version">>
                    \o joinAnd([i \in 1..Len(ids) |-> getPlatformName(ids[i])]))
        ELSE Notice("The shell command is empty. :(", <<>>, <<>>)

\* The steps chained to preaction_pipeline: the confirmation, then the Preactions.
buildPipeline(tsc) ==
    (IF tsc.confirm_execution THEN <<ConfirmationStep>> ELSE <<>>)
    \o [i \in 1..tsc.preactions |-> i]

\* Mutation of canPreparePreactions: the 'return' after a failed phase one is lost.
canPreparePreactions_noReturn(process_succeeded) == TRUE

\* if (!await parsing_process.process()) { displayErrorMessages(); return; }
canPreparePreactions(process_succeeded) == process_succeeded

\* Mutation of confirmationSettles: a declined confirmation resolves the step's
\* promise with false instead of leaving it unsettled.
confirmationSettles_resolvesFalse(execution_confirmed) ==
    IF execution_confirmed THEN "resolve_true" ELSE "resolve_false"

\* The callback of confirmation_modal.promise: what the step's promise does.
confirmationSettles(execution_confirmed) ==
    IF execution_confirmed
    THEN (IF execution_confirmed THEN "resolve_true" ELSE "resolve_false")
    ELSE "unsettled"

\* preaction_pipeline.then(() => preaction.perform(...)): the value the chained
\* promise resolves with, given the previous value and what perform() resolved with.
thenPerform(previous_value, performed_value) == performed_value

\* Mutation of canExecuteAfterProcessRest: the result of processRest() is not read.
canExecuteAfterProcessRest_unchecked(processRest_succeeded) == TRUE

\* if (await parsing_process.processRest()) { executeShellCommand() } else { display }
canExecuteAfterProcessRest(processRest_succeeded) == processRest_succeeded

\* The ShellCommandParsingResult built from the parsing results.
makeShellCommandParsingResult(content, wrapper, augmentation, stdin) ==
    [unwrappedShellCommandContent |-> content,
     wrappedShellCommandContent |->
        IF wrapper # <<>> THEN wrapShellCommandContent(content, wrapper) ELSE content,
     environment_variable_path_augmentation |-> augmentation,
     stdinContent |-> stdin,
     succeeded |-> TRUE]

\* Mutation of isShellCommandEmpty: the wrapped content is checked.
isShellCommandEmpty_wrapped(result) == Len(trim(result.wrappedShellCommandContent)) = 0

\* if (!unwrappedShellCommandContent.trim().length)
isShellCommandEmpty(result) == Len(trim(result.unwrappedShellCommandContent)) = 0

\* Mutation of workingDirectoryProblem: only the existence is checked.
workingDirectoryProblem_existsOnly(kind) ==
    IF kind = "missing" THEN "Working directory does not exist: " ELSE "ok"

\* fs.existsSync() / fs.lstatSync().isDirectory() on the working directory.
workingDirectoryProblem(kind) ==
    IF kind = "missing" THEN "Working directory does not exist: "
    ELSE IF kind # "directory" THEN "Working directory exists but is not a folder: "
    ELSE "ok"

\* The words an exception message is made of, with their lower-case forms (the
\* 'i' flag of the regular expression).
toLowerCase(word) ==
    CASE word = "Spawn" -> "spawn"
      [] word = "SPAWN" -> "spawn"
      [] word = "ENAMETOOLONG" -> "enametoolong"
      [] word = "Enametoolong" -> "enametoolong"
      [] OTHER -> word

\* \s of the regular expression.
isWhitespace(word) == word \in {" ", "\t"}

\* Mutation of matchesTooLong: the 'i' flag is lost.
matchesTooLong_caseSensitive(message) ==
    \E i \in 1..Len(message), j \in 1..Len(message) :
        /\ message[i] = "spawn"
        /\ j > i + 1
        /\ \A k \in (i + 1)..(j - 1) : isWhitespace(message[k])
        /\ message[j] = "ENAMETOOLONG"

\* exception.message.match(/spawn\s+ENAMETOOLONG/i): the message is a sequence
\* of words and whitespace characters; the match may start at any word.
matchesTooLong(message) ==
    \E i \in 1..Len(message), j \in 1..Len(message) :
        /\ toLowerCase(message[i]) = "spawn"
        /\ j > i + 1
        /\ \A k \in (i + 1)..(j - 1) : isWhitespace(message[k])
        /\ toLowerCase(message[j]) = "enametoolong"

\* Mutation of passesPathAugmentation: the optional call '?.' became a call.
passesPathAugmentation_unconditional(result, sh) ==
    Len(result.environment_variable_path_augmentation) > 0

\* if (environment_variable_path_augmentation.length > 0)
\*     shell.setEnvironmentVariablePathAugmentation?.(...)
passesPathAugmentation(result, sh) ==
    /\ Len(result.environment_variable_path_augmentation) > 0
    /\ sh.supports_path_augmentation

\* Mutation of writesStdin: the content is also written when it is undefined.
writesStdin_always(result) == TRUE

\* if (undefined !== shell_command_parsing_result.stdinContent)
writesStdin(result) == result.stdinContent # <<>>

\* Mutation of attachedOutputHandling: the 'realtime' case is lost.
attachedOutputHandling_bufferedOnly(mode) ==
    CASE mode = "buffered" -> "buffered"
      [] OTHER -> "none"

\* switch (getOutputHandlingMode()): the output handling hooked to the process.
attachedOutputHandling(mode) ==
    CASE mode = "buffered" -> "buffered"
      [] mode = "realtime" -> "realtime"
      [] OTHER -> "none"

StreamNames == {"stdout", "stderr"}

NoNotification == [state |-> "none", duration |-> "none", hide_on_exit |-> FALSE]

\* if ("disabled" !== mode) showExecutionNotification(...): the notification
\* shown at once and the timeout started.
showExecutionNotification(execution_notification_mode) ==
    CASE execution_notification_mode = "quick" ->
            [notification |-> [state |-> "shown", duration |-> "default",
                               hide_on_exit |-> FALSE],
             timer |-> "none"]
      [] execution_notification_mode = "permanent" ->
            [notification |-> [state |-> "shown", duration |-> "permanent",
                               hide_on_exit |-> TRUE],
             timer |-> "none"]
      [] execution_notification_mode = "if-long" ->
            [notification |-> NoNotification, timer |-> "pending"]
      [] OTHER -> [notification |-> NoNotification, timer |-> "none"]

\* The callback of window.setTimeout(): is the process still running?
isStillRunning(child) == Null = child.exitCode /\ ~child.killed

\* child_process.on("exit", () => processNotification.hide())
hideOnExit(shown) ==
    IF shown.hide_on_exit THEN [shown EXCEPT !.state = "hidden"] ELSE shown

\* startRealtimeOutputHandling(): an OutputChannel for every stream whose
\* output is not ignored.
startRealtimeOutputHandling(outputHandlerConfigurations) ==
    [outputStreamName \in {name \in StreamNames :
                              outputHandlerConfigurations[name] # "ignore"}
        |-> outputHandlerConfigurations[outputStreamName]]

\* Object.getOwnPropertyNames(outputChannels): stdout before stderr.
streamOrder(channels) ==
    SelectSeq(<<"stdout", "stderr">>, LAMBDA name : name \in DOMAIN channels)

\* Mutation of endRealtimeCalls: alreadyCalledChannelCodes is not consulted.
RECURSIVE endRealtimeCalls_noDeduplication(_, _, _, _)
endRealtimeCalls_noDeduplication(names, outputHandlerConfigurations, alreadyCalledChannelCodes, exitCode) ==
    IF names = <<>> THEN <<>>
    ELSE LET outputChannelCode == outputHandlerConfigurations[Head(names)]
         IN  <<[op |-> "endRealtime", stream |-> Head(names),
                channel |-> outputChannelCode, content |-> <<>>,
                exitCode |-> exitCode]>>
             \o endRealtimeCalls_noDeduplication(Tail(names),
                    outputHandlerConfigurations,
                    alreadyCalledChannelCodes \cup {outputChannelCode}, exitCode)

\* The 'exit' handler of handleRealtimeOutput: the endRealtime() calls it makes.
RECURSIVE endRealtimeCalls(_, _, _, _)
endRealtimeCalls(names, outputHandlerConfigurations, alreadyCalledChannelCodes, exitCode) ==
    IF names = <<>> THEN <<>>
    ELSE LET outputChannelCode == outputHandlerConfigurations[Head(names)]
         IN  (IF outputChannelCode \notin alreadyCalledChannelCodes
              THEN <<[op |-> "endRealtime", stream |-> Head(names),
                      channel |-> outputChannelCode, content |-> <<>>,
                      exitCode |-> exitCode]>>
              ELSE <<>>)
             \o endRealtimeCalls(Tail(names), outputHandlerConfigurations,
                                 alreadyCalledChannelCodes \cup {outputChannelCode},
                                 exitCode)

\* readable.read() ?? "": <<>> stands for null.
readOrEmpty(chunk) == IF chunk = <<>> THEN "" ELSE chunk[1]

\* Mutation of bufferedExit: the stderr of an ignored exit code is not emptied.
bufferedExit_keepsStderr(exitCode, stdout, stderr, ignore_error_codes) ==
    IF exitCode = Null \/ exitCode > 0
    THEN IF Null # exitCode /\ exitCode \in ignore_error_codes
         THEN [stdout |-> stdout, stderr |-> stderr, exitCode |-> Null,
               branch |-> "ignored"]
         ELSE [stdout |-> stdout, stderr |-> stderr, exitCode |-> exitCode,
               branch |-> "error"]
    ELSE IF Len(stderr) > 0
         THEN IF 0 \in ignore_error_codes
              THEN [stdout |-> stdout, stderr |-> "", exitCode |-> 0,
                    branch |-> "stderr ignored"]
              ELSE [stdout |-> stdout, stderr |-> stderr, exitCode |-> 0,
                    branch |-> "stderr relayed"]
         ELSE [stdout |-> stdout, stderr |-> stderr, exitCode |-> 0,
               branch |-> "no errors"]

\* Mutation of bufferedExit: the list of ignored codes is not read for code 0.
bufferedExit_zeroNeverIgnored(exitCode, stdout, stderr, ignore_error_codes) ==
    IF exitCode = Null \/ exitCode > 0
    THEN IF Null # exitCode /\ exitCode \in ignore_error_codes
         THEN [stdout |-> stdout, stderr |-> "", exitCode |-> Null,
               branch |-> "ignored"]
         ELSE [stdout |-> stdout, stderr |-> stderr, exitCode |-> exitCode,
               branch |-> "error"]
    ELSE IF Len(stderr) > 0
         THEN [stdout |-> stdout, stderr |-> stderr, exitCode |-> 0,
               branch |-> "stderr relayed"]
         ELSE [stdout |-> stdout, stderr |-> stderr, exitCode |-> 0,
               branch |-> "no errors"]

\* The 'exit' handler of handleBufferedOutput: the arguments it hands to
\* handleBufferedOutput() of OutputChannelFunctions, and the branch it took.
bufferedExit(exitCode, stdout, stderr, ignore_error_codes) ==
    IF exitCode = Null \/ exitCode > 0
    THEN IF Null # exitCode /\ exitCode \in ignore_error_codes
         THEN [stdout |-> stdout, stderr |-> "", exitCode |-> Null,
               branch |-> "ignored"]
         ELSE [stdout |-> stdout, stderr |-> stderr, exitCode |-> exitCode,
               branch |-> "error"]
    ELSE IF Len(stderr) > 0
         THEN IF 0 \in ignore_error_codes
              THEN [stdout |-> stdout, stderr |-> "", exitCode |-> 0,
                    branch |-> "stderr ignored"]
              ELSE [stdout |-> stdout, stderr |-> stderr, exitCode |-> 0,
                    branch |-> "stderr relayed"]
         ELSE [stdout |-> stdout, stderr |-> stderr, exitCode |-> 0,
               branch |-> "no errors"]

-----------------------------------------------------------------------------
(* ShellCommandExecutor: the execution attempt *)

Wrappers == {<<>>, <<"w", Placeholder>>}

Augmentations == {<<>>, <<"p">>}

StdinContents == {<<>>, <<"">>, <<"in">>}

Chunks == {<<>>, <<"text">>}

SpawnErrors == {<<"spawn", " ", "ENAMETOOLONG">>,
                <<"Error:", " ", "Spawn", " ", "\t", "enametoolong">>,
                <<"spawn", "ENAMETOOLONG">>,
                <<"ENAMETOOLONG", " ", "spawn">>,
                <<"spawn", " ", "EACCES">>}

StdinIsNull ==
    <<"Shell command execution process does not have a standard input stream (stdin).">>

StreamIsNull == <<"Child process's stdout and/or stderr stream is null.">>

DirectoryKinds == {"missing", "file", "directory"}

\* doPreactionsAndExecuteShellCommand(parsing_process?) up to its first await,
\* or, with a ParsingProcess supplied, up to the end of its synchronous part.
doPreactionsAndExecuteShellCommand(supplied) ==
    /\ pc = "idle"
    /\ IF ~supplied
       THEN /\ parsing_process' = [state |-> "created", supplied |-> FALSE]
            /\ calls' = Called("process")
            /\ pc' = "process"
            /\ UNCHANGED preaction_pipeline
       ELSE /\ parsing_process' = [state |-> "first_pass_done", supplied |-> TRUE]
            /\ preaction_pipeline' = buildPipeline(t_shell_command)
            /\ pc' = "pipeline"
            /\ UNCHANGED calls
    /\ UNCHANGED <<next_step, pipeline_value, in_progress, steps,
                   shell_command_parsing_result, notices, child_process,
                   dispatched, thrown>>
    /\ UNCHANGED <<paletteVars, configVars, shell, translated, raised, notificationVars, realtimeVars>>
    /\ UNCHANGED <<previews, laterVars>>

\* await parsing_process.process() has settled.
processSettled(succeeded) ==
    /\ pc = "process"
    /\ parsing_process' =
          [parsing_process EXCEPT !.state = IF succeeded THEN "first_pass_done"
                                            ELSE "failed"]
    /\ notices' = IF succeeded THEN notices
                  ELSE Append(notices, displayErrorMessages)
    /\ IF canPreparePreactions(succeeded)
       THEN /\ preaction_pipeline' = buildPipeline(t_shell_command)
            /\ pc' = "pipeline"
       ELSE /\ pc' = "failed"
            /\ UNCHANGED preaction_pipeline
    /\ UNCHANGED <<next_step, pipeline_value, in_progress, steps,
                   shell_command_parsing_result, calls, child_process,
                   dispatched, thrown>>
    /\ UNCHANGED <<paletteVars, configVars, shell, translated, raised, notificationVars, realtimeVars>>
    /\ UNCHANGED <<previews, laterVars>>

\* The .then() callback of the next step of the pipeline is called: it opens
\* the confirmation modal, or calls preaction.perform().
pipelineStep ==
    /\ pc = "pipeline"
    /\ next_step <= Len(preaction_pipeline)
    /\ LET step == preaction_pipeline[next_step]
       IN  /\ in_progress' = in_progress \cup {step}
           /\ IF step = ConfirmationStep
              THEN /\ calls' = Called("confirmation_modal")
                   /\ pc' = "confirming"
              ELSE /\ calls' = Called("perform")
                   /\ pc' = "performing"
    /\ UNCHANGED <<parsing_process, preaction_pipeline, next_step, pipeline_value,
                   steps, shell_command_parsing_result, notices, child_process,
                   dispatched, thrown>>
    /\ UNCHANGED <<paletteVars, configVars, shell, translated, raised, notificationVars, realtimeVars>>
    /\ UNCHANGED <<previews, laterVars>>

\* confirmation_modal.promise has resolved with the user's answer.
confirmationAnswered(execution_confirmed) ==
    /\ pc = "confirming"
    /\ steps' = Append(steps, [step |-> ConfirmationStep,
                               proceed |-> execution_confirmed])
    /\ LET settles == confirmationSettles(execution_confirmed)
       IN  IF settles = "unsettled"
           THEN /\ pc' = "pending"
                /\ UNCHANGED <<in_progress, next_step, pipeline_value>>
           ELSE /\ pc' = "pipeline"
                /\ in_progress' = in_progress \ {ConfirmationStep}
                /\ next_step' = next_step + 1
                /\ pipeline_value' = (settles = "resolve_true")
    /\ UNCHANGED <<parsing_process, preaction_pipeline,
                   shell_command_parsing_result, notices, calls, child_process,
                   dispatched, thrown>>
    /\ UNCHANGED <<paletteVars, configVars, shell, translated, raised, notificationVars, realtimeVars>>
    /\ UNCHANGED <<previews, laterVars>>

\* The promise of preaction.perform() has resolved.
preactionPerformed(proceed) ==
    /\ pc = "performing"
    /\ LET step == preaction_pipeline[next_step]
       IN  /\ steps' = Append(steps, [step |-> step, proceed |-> proceed])
           /\ in_progress' = in_progress \ {step}
    /\ pipeline_value' = thenPerform(pipeline_value, proceed)
    /\ next_step' = next_step + 1
    /\ pc' = "pipeline"
    /\ UNCHANGED <<parsing_process, preaction_pipeline,
                   shell_command_parsing_result, notices, calls, child_process,
                   dispatched, thrown>>
    /\ UNCHANGED <<paletteVars, configVars, shell, translated, raised, notificationVars, realtimeVars>>
    /\ UNCHANGED <<previews, laterVars>>

\* preaction_pipeline.then(async (can_execute) => ...) up to its first await.
pipelineSettled ==
    /\ pc = "pipeline"
    /\ next_step > Len(preaction_pipeline)
    /\ IF pipeline_value
       THEN /\ calls' = Called("processRest")
            /\ pc' = "processRest"
       ELSE /\ pc' = "cancelled"
            /\ UNCHANGED calls
    /\ UNCHANGED <<parsing_process, preaction_pipeline, next_step, pipeline_value,
                   in_progress, steps, shell_command_parsing_result, notices,
                   child_process, dispatched, thrown>>
    /\ UNCHANGED <<paletteVars, configVars, shell, translated, raised, notificationVars, realtimeVars>>
    /\ UNCHANGED <<previews, laterVars>>

\* await parsing_process.processRest() has settled; on success the whole
\* synchronous part of executeShellCommand() follows, up to the await of
\* shell.spawnChildProcess().
processRestSettled(succeeded, content, wrapper, augmentation, stdin) ==
    /\ pc = "processRest"
    /\ parsing_process' =
          [parsing_process EXCEPT !.state = IF succeeded THEN "complete"
                                            ELSE "failed"]
    /\ IF ~canExecuteAfterProcessRest(succeeded)
       THEN /\ notices' = Append(notices, displayErrorMessages)
            /\ pc' = "failed"
            /\ UNCHANGED <<shell_command_parsing_result, calls, shell>>
       ELSE LET result == makeShellCommandParsingResult(content, wrapper,
                                                        augmentation, stdin)
                working_directory == getWorkingDirectory(settings, vaultAbsolutePath)
                problem == workingDirectoryProblem(file_system[working_directory])
                augment == passesPathAugmentation(result, shell)
            IN  /\ shell_command_parsing_result' = <<result>>
                /\ IF isShellCommandEmpty(result)
                   THEN /\ notices' = Append(notices,
                               getErrorMessageForEmptyShellCommand(t_shell_command))
                        /\ calls' = Called("executeShellCommand")
                        /\ pc' = "failed"
                        /\ UNCHANGED shell
                   ELSE IF problem # "ok"
                   THEN /\ notices' = Append(notices,
                               Notice(problem, working_directory, <<>>))
                        /\ calls' = [calls EXCEPT !.executeShellCommand = @ + 1,
                                                  !.existsSync = @ + 1]
                        /\ pc' = "failed"
                        /\ UNCHANGED shell
                   ELSE /\ shell' = IF augment
                                    THEN [shell EXCEPT !.path_augmentation =
                                        result.environment_variable_path_augmentation]
                                    ELSE shell
                        /\ calls' = [calls EXCEPT
                              !.executeShellCommand = @ + 1,
                              !.existsSync = @ + 1,
                              !.setEnvironmentVariablePathAugmentation =
                                  IF augment THEN @ + 1 ELSE @,
                              !.spawnChildProcess = @ + 1]
                        /\ pc' = "spawning"
                        /\ UNCHANGED notices
    /\ UNCHANGED <<preaction_pipeline, next_step, pipeline_value, in_progress,
                   steps, child_process, dispatched, thrown>>
    /\ UNCHANGED <<paletteVars, configVars, translated, raised, notificationVars, realtimeVars>>
    /\ UNCHANGED <<previews, laterVars>>

\* shell.spawnChildProcess() returned null: a shell configuration error.
spawnReturnedNull ==
    /\ pc = "spawning"
    /\ pc' = "done"
    /\ UNCHANGED <<parsing_process, preaction_pipeline, next_step, pipeline_value,
                   in_progress, steps, shell_command_parsing_result, notices,
                   calls, child_process, dispatched, thrown>>
    /\ UNCHANGED <<paletteVars, configVars, shell, translated, raised, notificationVars, realtimeVars>>
    /\ UNCHANGED <<previews, laterVars>>

\* How many chunks of output the process has written so far; the chunks are
\* numbered in the order they are written.
written_chunks ==
    Cardinality({chunk \in 1..MaxChunks :
        \/ \E name \in StreamNames :
              \E i \in 1..Len(streams[name].buffer) :
                  streams[name].buffer[i] = chunk
        \/ \E e \in 1..Len(events), i \in 1..MaxChunks :
              /\ events[e].op = "handleRealtime"
              /\ i <= Len(events[e].content)
              /\ events[e].content[i] = chunk})

\* readableStream.read(): everything the buffer holds, or null (<<>>).
read(buffer) == IF buffer = <<>> THEN <<>> ELSE <<buffer>>

\* readableStream.read() ?? "": the chunks read, none for null.
readAll(buffer) == IF read(buffer) = <<>> THEN <<>> ELSE read(buffer)[1]

\* When a stream emits 'readable': there is data to read or its end is
\* reached, and a listener is registered. pause() and resume() switch the
\* flowing mode of a stream, which a stream with a 'readable' listener is
\* never in, so the event does not depend on them.
emitsReadable(stream) ==
    /\ stream.listening
    /\ stream.buffer # <<>> \/ stream.state = "ending"

\* catch (exception): the 'too long' notice, or the exception is rethrown.
catchException(message) ==
    /\ raised' = Append(raised, message)
    /\ IF matchesTooLong(message)
       THEN /\ notices' = Append(notices,
                   Notice("Shell command execution failed because it's too long: ",
                          <<>>,
                          <<Len(shell_command_parsing_result[1]
                                    .wrappedShellCommandContent)>>))
            /\ pc' = "failed"
            /\ UNCHANGED thrown
       ELSE /\ thrown' = Append(thrown, message)
            /\ pc' = "threw"
            /\ UNCHANGED notices

\* shell.spawnChildProcess() threw: the catch block of executeShellCommand().
spawnThrew(message) ==
    /\ pc = "spawning"
    /\ catchException(message)
    /\ UNCHANGED <<parsing_process, preaction_pipeline, next_step, pipeline_value,
                   in_progress, steps, shell_command_parsing_result, calls,
                   child_process, dispatched>>
    /\ UNCHANGED <<paletteVars, configVars, shell, translated, notificationVars, realtimeVars>>
    /\ UNCHANGED <<previews, laterVars>>

\* shell.spawnChildProcess() returned a ChildProcess: stdin, the 'error' hook,
\* the encodings, the output handling of the configured mode and the
\* execution notification.
spawned(stdin_is_null, stream_is_null) ==
    /\ pc = "spawning"
    /\ LET result == shell_command_parsing_result[1]
           has_stdin == writesStdin(result)
           child == [stdin |-> IF stdin_is_null THEN "null" ELSE "open",
                     written |-> <<>>,
                     error_hook |-> FALSE,
                     output_handling |-> "none",
                     exited |-> FALSE,
                     exitCode |-> Null,
                     killed |-> FALSE,
                     stdout |-> "",
                     stderr |-> ""]
       IN  IF has_stdin /\ stdin_is_null
           THEN /\ child_process' = <<child>>
                /\ catchException(StdinIsNull)
                /\ UNCHANGED <<calls, notificationVars, streams, outputChannels>>
           ELSE LET fed == IF has_stdin
                           THEN [child EXCEPT !.written = result.stdinContent,
                                              !.stdin = "ended",
                                              !.error_hook = TRUE]
                           ELSE [child EXCEPT !.error_hook = TRUE]
                    after_stdin == IF has_stdin
                                   THEN [calls EXCEPT !.stdin_write = @ + 1,
                                                      !.stdin_end = @ + 1]
                                   ELSE calls
                    mode == attachedOutputHandling(
                                t_shell_command.output_handling_mode)
                    channels == startRealtimeOutputHandling(
                                    t_shell_command.output_handlers)
                    shown == showExecutionNotification(
                                 settings.execution_notification_mode)
                IN  IF stream_is_null
                    THEN /\ child_process' = <<fed>>
                         /\ calls' = after_stdin
                         /\ catchException(StreamIsNull)
                         /\ UNCHANGED <<notificationVars, streams, outputChannels>>
                    ELSE /\ child_process' = <<[fed EXCEPT !.output_handling = mode]>>
                         /\ calls' = CASE mode = "buffered" ->
                                            [after_stdin EXCEPT
                                                !.handleBufferedOutput = @ + 1]
                                       [] mode = "realtime" ->
                                            [after_stdin EXCEPT
                                                !.handleRealtimeOutput = @ + 1]
                                       [] OTHER -> after_stdin
                         /\ IF mode = "realtime"
                            THEN /\ outputChannels' = channels
                                 /\ streams' =
                                       [name \in StreamNames |->
                                           [streams[name] EXCEPT !.listening =
                                               name \in DOMAIN channels]]
                            ELSE UNCHANGED <<streams, outputChannels>>
                         /\ notification' = shown.notification
                         /\ timer' = shown.timer
                         /\ pc' = "running"
                         /\ UNCHANGED <<thrown, raised, notices>>
    /\ UNCHANGED <<parsing_process, preaction_pipeline, next_step, pipeline_value,
                   in_progress, steps, shell_command_parsing_result, dispatched>>
    /\ UNCHANGED <<paletteVars, configVars, shell, translated, handling, events>>
    /\ UNCHANGED <<previews, laterVars>>

\* The 'exit' event of a process whose output is buffered: the handler of
\* handleBufferedOutput, then the one that hides the notification.
bufferedProcessExit(exitCode, stdout_chunk, stderr_chunk) ==
    /\ pc = "running"
    /\ child_process[1].output_handling = "buffered"
    /\ ~child_process[1].exited
    /\ dispatched' = Append(dispatched,
          bufferedExit(exitCode, readOrEmpty(stdout_chunk), readOrEmpty(stderr_chunk),
                       t_shell_command.ignore_error_codes))
    /\ child_process' = <<[child_process[1] EXCEPT
                              !.exited = TRUE,
                              !.exitCode = exitCode,
                              !.stdout = readOrEmpty(stdout_chunk),
                              !.stderr = readOrEmpty(stderr_chunk)]>>
    /\ notification' = hideOnExit(notification)
    /\ pc' = "exited"
    /\ UNCHANGED <<parsing_process, preaction_pipeline, next_step, pipeline_value,
                   in_progress, steps, shell_command_parsing_result, notices,
                   calls, thrown>>
    /\ UNCHANGED <<paletteVars, configVars, shell, translated, raised, timer, realtimeVars>>
    /\ UNCHANGED <<previews, laterVars>>

\* The callback of window.setTimeout() of the 'if-long' notification.
notificationTimeout ==
    /\ timer = "pending"
    /\ timer' = "fired"
    /\ notification' =
          IF isStillRunning(child_process[1])
          THEN [state |-> "shown", duration |-> "permanent", hide_on_exit |-> TRUE]
          ELSE notification
    /\ UNCHANGED <<paletteVars, configVars, shell, translated, execVars, raised, realtimeVars>>
    /\ UNCHANGED <<previews, laterVars>>

\* processTerminator(): child_process.kill("SIGTERM"), asked with the button of
\* the notification or by an OutputChannel of the realtime handling.
requestTerminate ==
    /\ pc = "running"
    /\ ~child_process[1].exited
    /\ ~child_process[1].killed
    /\ \/ notification.state = "shown"
       \/ child_process[1].output_handling = "realtime"
    /\ child_process' = <<[child_process[1] EXCEPT !.killed = TRUE]>>
    /\ UNCHANGED <<parsing_process, preaction_pipeline, next_step, pipeline_value,
                   in_progress, steps, shell_command_parsing_result, notices,
                   calls, dispatched, thrown, pc>>
    /\ UNCHANGED <<paletteVars, configVars, shell, translated, raised, notificationVars,
                   realtimeVars>>
    /\ UNCHANGED <<previews, laterVars>>

\* A chunk of output of the process reaches the buffer of a stream.
outputArrives(outputStreamName) ==
    /\ pc = "running"
    /\ child_process[1].output_handling = "realtime"
    /\ written_chunks < MaxChunks
    /\ streams[outputStreamName].state = "open"
    /\ streams' = [streams EXCEPT ![outputStreamName].buffer =
                                      Append(@, written_chunks + 1)]
    /\ UNCHANGED <<paletteVars, configVars, shell, translated, execVars, raised,
                   notificationVars, outputChannels, handling, events>>
    /\ UNCHANGED <<previews, laterVars>>

\* The process closes a stream: its end is reached once the buffer is read.
streamEnds(outputStreamName) ==
    /\ pc \in {"running", "exited"}
    /\ child_process[1].output_handling = "realtime"
    /\ streams[outputStreamName].state = "open"
    /\ streams' = [streams EXCEPT ![outputStreamName].state = "ending"]
    /\ UNCHANGED <<paletteVars, configVars, shell, translated, execVars, raised,
                   notificationVars, outputChannels, handling, events>>
    /\ UNCHANGED <<previews, laterVars>>

\* The 'readable' event of a stream: handleNewOutputContent() up to its await.
readable(outputStreamName) ==
    /\ pc \in {"running", "exited"}
    /\ emitsReadable(streams[outputStreamName])
    /\ LET outputContent == readAll(streams[outputStreamName].buffer)
           call == [op |-> "handleRealtime", stream |-> outputStreamName,
                    channel |-> outputChannels[outputStreamName],
                    content |-> outputContent, exitCode |-> Null]
       IN  /\ streams' =
                 [name \in StreamNames |->
                     IF name = outputStreamName
                     THEN [streams[name] EXCEPT
                              !.paused = TRUE,
                              !.buffer = <<>>,
                              !.state = IF @ = "ending" /\ streams[name].buffer = <<>>
                                        THEN "ended" ELSE @]
                     ELSE [streams[name] EXCEPT !.paused = TRUE]]
           /\ handling' = Append(handling, call)
           /\ events' = Append(events, call)
    /\ UNCHANGED <<paletteVars, configVars, shell, translated, execVars, raised,
                   notificationVars, outputChannels>>
    /\ UNCHANGED <<previews, laterVars>>

\* The promise of outputChannel.handleRealtime() has resolved: the rest of
\* handleNewOutputContent().
handleRealtimeSettled(i) ==
    /\ i \in 1..Len(handling)
    /\ handling' = [j \in 1..(Len(handling) - 1) |->
                       IF j < i THEN handling[j] ELSE handling[j + 1]]
    /\ streams' = [name \in StreamNames |-> [streams[name] EXCEPT !.paused = FALSE]]
    /\ UNCHANGED <<paletteVars, configVars, shell, translated, execVars, raised,
                   notificationVars, outputChannels, events>>
    /\ UNCHANGED <<previews, laterVars>>

\* The 'exit' event of a process whose output is handled in real time: the
\* handler of handleRealtimeOutput, then the one that hides the notification.
realtimeProcessExit(exitCode) ==
    /\ pc = "running"
    /\ child_process[1].output_handling = "realtime"
    /\ ~child_process[1].exited
    /\ events' = events \o endRealtimeCalls(streamOrder(outputChannels),
                                            t_shell_command.output_handlers,
                                            {}, exitCode)
    /\ child_process' = <<[child_process[1] EXCEPT !.exited = TRUE,
                                                   !.exitCode = exitCode]>>
    /\ notification' = hideOnExit(notification)
    /\ pc' = "exited"
    /\ UNCHANGED <<parsing_process, preaction_pipeline, next_step, pipeline_value,
                   in_progress, steps, shell_command_parsing_result, notices,
                   calls, dispatched, thrown>>
    /\ UNCHANGED <<paletteVars, configVars, shell, translated, raised, timer, streams,
                   outputChannels, handling>>
    /\ UNCHANGED <<previews, laterVars>>

-----------------------------------------------------------------------------
(* Shell.getWorkingDirectory() *)

ALTSEP == "\\"

RECURSIVE replaceSeparators(_)
replaceSeparators(p) ==
    IF p = <<>> THEN <<>>
    ELSE <<IF Head(p) = ALTSEP THEN SEP ELSE Head(p)>> \o replaceSeparators(Tail(p))

\* Shell.translateAbsolutePath() of the concrete shells: the directory
\* separators are replaced by the shell's own, and a shell of a foreign file
\* system namespace prefixes the path with its mount point.
translateAbsolutePath(sh, originalPath) ==
    IF sh.kind = "subsystem"
    THEN <<SEP, "mnt">> \o normalize(replaceSeparators(originalPath))
    ELSE normalize(replaceSeparators(originalPath))

Shell_getWorkingDirectory(sh, plugin_settings, vault) ==
    LET workingDirectory == plugin_settings.working_directory
    IN  IF Len(workingDirectory) = 0 THEN translateAbsolutePath(sh, vault)
        ELSE IF ~isAbsolute(workingDirectory)
             THEN translateAbsolutePath(sh, join(vault, workingDirectory))
        ELSE workingDirectory

\* A caller asks the shell for the working directory.
shellGetWorkingDirectory ==
    /\ translated = <<>>
    /\ translated' = <<Shell_getWorkingDirectory(shell, settings, vaultAbsolutePath)>>
    /\ UNCHANGED <<paletteVars, configVars, shell, execVars, raised, notificationVars, realtimeVars>>
    /\ UNCHANGED <<previews, laterVars>>

-----------------------------------------------------------------------------
(* Shell.escapeValue() *)

\* The escapers a shell can have; "none" is a shell without escaping support.
Escapers == {"none", "ShEscaper", "PowerShellEscaper"}

\* The character an escaper puts in front of a special character.
escapeCharacter(escaper) == IF escaper = "ShEscaper" THEN "backslash" ELSE "backtick"

\* Whether an escaper has to escape a character: everything but a letter.
isSpecial(char) == char # "x"

\* escaper.escape(): every special character of the raw value gets the escape
\* character in front of it.
RECURSIVE escape(_, _)
escape(escaper, rawValue) ==
    IF rawValue = <<>> THEN <<>>
    ELSE (IF isSpecial(Head(rawValue))
          THEN <<escapeCharacter(escaper), Head(rawValue)>>
          ELSE <<Head(rawValue)>>) \o escape(escaper, Tail(rawValue))

\* this.getEscaper(rawValue): <<>> stands for null.
getEscaper(sh, rawValue) ==
    IF sh.escaper = "none" THEN <<>>
    ELSE <<[escaper |-> sh.escaper, raw_value |-> rawValue]>>

\* Mutation of escapeValue: the value is returned as it is by every shell.
escapeValue_intact(sh, rawValue) == rawValue

\* Shell.escapeValue(rawValue)
escapeValue(sh, rawValue) ==
    LET escaper == getEscaper(sh, rawValue)
    IN  IF escaper # <<>>
        THEN escape(escaper[1].escaper, escaper[1].raw_value)
        ELSE rawValue

\* A caller has a value escaped for the shell.
shellEscapeValue(rawValue) ==
    /\ Len(escaped) < MaxCalls
    /\ escaped' = Append(escaped, [rawValue |-> rawValue,
                                   returned |-> escapeValue(shell, rawValue)])
    /\ UNCHANGED <<coreVars, tabVars, version_support, startupVars, promptVars, idVars>>

-----------------------------------------------------------------------------
(* SC_Plugin.registerShellCommand(): the command palette callback *)

CommandIds == 1..MaxCommands

\* An object without own properties: {}. The code reads the objects only
\* by key, so that an object is what it yields for every command id, <<>>
\* standing for undefined, also for a key that is not there.
NoEntries == [id \in CommandIds |-> <<>>]

\* object[key]
entryOf(object, key) == object[key]

\* Mutation of withEntry: an entry is never set back to undefined.
withEntry_definedOnly(object, key, value) ==
    IF value = <<>> THEN object ELSE [object EXCEPT ![key] = value]

\* object[key] = value
withEntry(object, key, value) == [object EXCEPT ![key] = value]

\* Mutation of afterExecution: the entries are left as they are.
afterExecution_kept(object, key) == object

\* Mutation of afterExecution: only the entry of the executed command is removed.
afterExecution_ownEntryOnly(object, key) == [object EXCEPT ![key] = <<>>]

\* this.cached_parsing_processes = {} (SC_Plugin), and
\* this.preparsed_shell_command_configurations = {} (ShellCommandsPlugin).
afterExecution(object, key) == NoEntries

\* Mutation of createParsingProcess: the new parsing process goes straight
\* into an execution attempt.
createParsingProcess_executing(shell_command_id) ==
    [shell_command_id |-> shell_command_id, state |-> "created",
     process |-> 0, processRest |-> 0, attempts |-> 1,
     via |-> "palette", stage |-> "pipeline"]

\* t_shell_command.createParsingProcess(null)
createParsingProcess(shell_command_id) ==
    [shell_command_id |-> shell_command_id, state |-> "created",
     process |-> 0, processRest |-> 0, attempts |-> 0,
     via |-> "none", stage |-> "none"]

\* parsing_process.process(): one more call of phase one, and its result.
processed(a_parsing_process, succeeded) ==
    [a_parsing_process EXCEPT !.process = @ + 1,
                            !.state = IF succeeded THEN "first_pass_done"
                                      ELSE "failed"]

\* doPreactionsAndExecuteShellCommand(parsing_process): an execution attempt
\* that has the parsing process for its own, how it was started and how far
\* it has come.
consumed(a_parsing_process, via, stage) ==
    [a_parsing_process EXCEPT !.attempts = @ + 1, !.via = via, !.stage = stage]

\* No execution of ShellCommandsPlugin yet, which has no parsing processes:
\* its executions are counted by where the configuration came from.
NoAttempts == [via \in {"palette", "preparsed"} |-> 0]

\* One more execution of ShellCommandsPlugin.
Attempt(started, via) == [started EXCEPT ![via] = @ + 1]

\* if (!parsing_process) { parsing_process = createParsingProcess(null) }
usesCachedProcess(cached) == cached # <<>>

AttemptOutcomes == {"process failed", "cancelled", "processRest failed", "executed"}

\* checkCallback(true) of SC_Plugin: the command palette is being opened.
paletteOpening(id, can_show, succeeded) ==
    /\ plugin_version = "SC_Plugin"
    /\ IF ~can_show
       THEN UNCHANGED <<cached_parsing_processes, parsing_processes,
                        obsidian_commands>>
       ELSE IF settings.preview_variables_in_command_palette
            THEN /\ Len(parsing_processes) < MaxProcesses
                 /\ parsing_processes' =
                       Append(parsing_processes,
                              processed(createParsingProcess(id), succeeded))
                 /\ IF succeeded
                    THEN /\ obsidian_commands' =
                               [obsidian_commands EXCEPT ![id] = "parsed"]
                         /\ cached_parsing_processes' =
                               withEntry(cached_parsing_processes, id,
                                         <<Len(parsing_processes) + 1>>)
                    ELSE /\ obsidian_commands' =
                               [obsidian_commands EXCEPT ![id] = "unparsed"]
                         /\ cached_parsing_processes' =
                               withEntry(cached_parsing_processes, id, <<>>)
            ELSE /\ obsidian_commands' =
                       [obsidian_commands EXCEPT ![id] = "unparsed"]
                 /\ cached_parsing_processes' =
                       withEntry(cached_parsing_processes, id, <<>>)
                 /\ UNCHANGED parsing_processes
    /\ UNCHANGED <<plugin_version, preparsed_shell_command_configurations, attempts>>
    /\ UNCHANGED <<configVars, shell, translated, execVars, raised,
                   notificationVars, realtimeVars>>
    /\ UNCHANGED <<previews, laterVars>>

\* checkCallback(false) of SC_Plugin: the command is executed from the palette
\* or with a hotkey: executor(), then the cache is replaced by an empty one.
paletteExecution(id, succeeded) ==
    /\ plugin_version = "SC_Plugin"
    /\ LET cached == entryOf(cached_parsing_processes, id)
           created == ~usesCachedProcess(cached)
           p == IF created THEN Len(parsing_processes) + 1 ELSE cached[1]
           known == IF created
                    THEN Append(parsing_processes, createParsingProcess(id))
                    ELSE parsing_processes
       IN  /\ created => Len(parsing_processes) < MaxProcesses
           /\ succeeded => known[p].attempts < MaxAttempts
           /\ IF succeeded
              THEN /\ parsing_processes' =
                         [known EXCEPT ![p] = consumed(processed(@, TRUE),
                                                       "palette", "pipeline")]
                   /\ UNCHANGED notices
              ELSE /\ parsing_processes' =
                         [known EXCEPT ![p] = processed(@, FALSE)]
                   /\ notices' = Append(notices, displayErrorMessages)
    /\ cached_parsing_processes' = afterExecution(cached_parsing_processes, id)
    /\ UNCHANGED <<plugin_version, preparsed_shell_command_configurations,
                   attempts, obsidian_commands>>
    /\ UNCHANGED <<pc, parsing_process, preaction_pipeline, next_step,
                   pipeline_value, in_progress, steps,
                   shell_command_parsing_result, calls, child_process,
                   dispatched, thrown>>
    /\ UNCHANGED <<configVars, shell, translated, raised, notificationVars,
                   realtimeVars>>
    /\ UNCHANGED <<previews, laterVars>>

\* A shell command is executed outside the command palette (an SC_Event, the
\* settings panel): doPreactionsAndExecuteShellCommand() without a parsing
\* process, up to its await of process().
eventExecution(id) ==
    /\ plugin_version = "SC_Plugin"
    /\ Len(parsing_processes) < MaxProcesses
    /\ parsing_processes' =
          Append(parsing_processes,
                 [consumed(createParsingProcess(id), "event", "process")
                     EXCEPT !.process = 1])
    /\ UNCHANGED <<plugin_version, cached_parsing_processes,
                   preparsed_shell_command_configurations, attempts,
                   obsidian_commands>>
    /\ UNCHANGED <<configVars, shell, translated, execVars, raised,
                   notificationVars, realtimeVars>>
    /\ UNCHANGED <<previews, laterVars>>

\* The rest of an execution attempt: the awaited process() of an attempt
\* without a supplied parsing process settles, the pipeline of Preactions
\* settles, and processRest() is called and settles unless the execution was
\* cancelled before.
attemptContinues(p, outcome) ==
    /\ p \in 1..Len(parsing_processes)
    /\ parsing_processes[p].stage \in {"process", "pipeline"}
    /\ outcome = "process failed" => parsing_processes[p].stage = "process"
    /\ parsing_processes' =
          [parsing_processes EXCEPT ![p] =
              CASE outcome = "process failed" ->
                      [@ EXCEPT !.stage = outcome, !.state = "failed"]
                [] outcome = "cancelled" ->
                      [@ EXCEPT !.stage = outcome, !.state = "first_pass_done"]
                [] outcome = "processRest failed" ->
                      [@ EXCEPT !.stage = outcome, !.processRest = @ + 1,
                                !.state = "failed"]
                [] OTHER ->
                      [@ EXCEPT !.stage = outcome, !.processRest = @ + 1,
                                !.state = "complete"]]
    /\ notices' = IF outcome \in {"process failed", "processRest failed"}
                  THEN Append(notices, displayErrorMessages)
                  ELSE notices
    /\ UNCHANGED <<plugin_version, cached_parsing_processes,
                   preparsed_shell_command_configurations, attempts,
                   obsidian_commands>>
    /\ UNCHANGED <<pc, parsing_process, preaction_pipeline, next_step,
                   pipeline_value, in_progress, steps,
                   shell_command_parsing_result, calls, child_process,
                   dispatched, thrown>>
    /\ UNCHANGED <<configVars, shell, translated, raised, notificationVars,
                   realtimeVars>>
    /\ UNCHANGED <<previews, laterVars>>

\* The user switches the preview of variables in the settings.
togglePreview ==
    /\ settings' = [settings EXCEPT !.preview_variables_in_command_palette = ~@]
    /\ UNCHANGED <<paletteVars, vaultAbsolutePath, file_system, t_shell_command,
                   shell, translated, execVars, raised, notificationVars,
                   realtimeVars>>
    /\ UNCHANGED <<previews, laterVars>>

-----------------------------------------------------------------------------
(* ShellCommandsPlugin.registerShellCommand(): the command palette callback *)

\* checkCallback(true) of ShellCommandsPlugin: the command palette is being
\* opened; the shell command and the alias are parsed for the preview.
legacyPaletteOpening(id, shell_command_parsed, alias_parsed) ==
    /\ plugin_version = "ShellCommandsPlugin"
    /\ IF settings.preview_variables_in_command_palette
          /\ shell_command_parsed /\ alias_parsed
       THEN /\ obsidian_commands' = [obsidian_commands EXCEPT ![id] = "parsed"]
            /\ preparsed_shell_command_configurations' =
                  withEntry(preparsed_shell_command_configurations, id, <<id>>)
       ELSE UNCHANGED <<obsidian_commands, preparsed_shell_command_configurations>>
    /\ previews' = [previews EXCEPT ![id] =
          IF ~settings.preview_variables_in_command_palette THEN "off"
          ELSE IF shell_command_parsed /\ alias_parsed THEN "succeeded"
          ELSE "failed"]
    /\ UNCHANGED <<plugin_version, cached_parsing_processes, parsing_processes,
                   attempts>>
    /\ UNCHANGED <<configVars, shell, translated, execVars, raised,
                   notificationVars, realtimeVars>>
    /\ UNCHANGED laterVars

\* checkCallback(false) of ShellCommandsPlugin: the command is executed; the
\* preparsed configurations are replaced by an empty object.
legacyPaletteExecution(id, parsed) ==
    /\ plugin_version = "ShellCommandsPlugin"
    /\ LET preparsed == entryOf(preparsed_shell_command_configurations, id)
       IN  IF preparsed = <<>>
           THEN IF parsed
                THEN attempts' = Attempt(attempts, "palette")
                ELSE UNCHANGED attempts
           ELSE attempts' = Attempt(attempts, "preparsed")
    /\ attempts["palette"] + attempts["preparsed"] < MaxAttempts
    /\ preparsed_shell_command_configurations' =
          afterExecution(preparsed_shell_command_configurations, id)
    /\ UNCHANGED <<plugin_version, cached_parsing_processes, parsing_processes,
                   obsidian_commands, previews>>
    /\ UNCHANGED <<configVars, shell, translated, execVars, raised,
                   notificationVars, realtimeVars>>
    /\ UNCHANGED laterVars

-----------------------------------------------------------------------------
(* SC_Plugin: the settings version *)

\* The numbers a part of a version can be.
VersionParts == {0, 1, 10, 11, 12}

\* A SettingsVersionString is the text "prior-to-0.7.0" or a version
\* "major.minor.patch", which is kept as the sequence of its numbers.
PriorTo070 == [text |-> "prior-to-0.7.0", parts |-> <<>>]

Version(parts) == [text |-> "major.minor.patch", parts |-> parts]

SettingsVersionStrings == {PriorTo070} \cup {Version(parts) : parts \in [1..3 -> VersionParts]}

\* SC_Plugin.SettingsVersion = "0.11.0"
SettingsVersion == Version(<<0, 11, 0>>)

\* versionCompare(v1, v2): negative when v1 is older than v2, 0 when they
\* are equal, positive when v1 is newer, comparing part by part.
RECURSIVE versionCompare(_, _)
versionCompare(v1, v2) ==
    IF v1 = <<>> /\ v2 = <<>> THEN 0
    ELSE IF v1 = <<>> THEN -1
    ELSE IF v2 = <<>> THEN 1
    ELSE IF Head(v1) > Head(v2) THEN 1
    ELSE IF Head(v1) < Head(v2) THEN -1
    ELSE versionCompare(Tail(v1), Tail(v2))

\* What isSettingsVersionSupported() returns: true, or an error message.
Supported == [type |-> "boolean", value |-> "true"]

NotSupported(current_settings_version) ==
    [type |-> "string",
     value |-> <<"The settings file is saved by a newer version of this plugin",
                 current_settings_version>>]

\* Mutation of isSettingsVersionSupported: every version is supported.
isSettingsVersionSupported_always(current_settings_version) == Supported

\* SC_Plugin.isSettingsVersionSupported(current_settings_version)
isSettingsVersionSupported(current_settings_version) ==
    IF current_settings_version.text = "prior-to-0.7.0" THEN Supported
    ELSE LET version_comparison ==
                 versionCompare(SettingsVersion.parts, current_settings_version.parts)
         IN  IF version_comparison = 0 THEN Supported
             ELSE IF version_comparison < 0
                  THEN NotSupported(current_settings_version)
             ELSE Supported

\* A caller asks whether a settings version is supported.
checkSettingsVersion(current_settings_version) ==
    /\ version_support = <<>>
    /\ version_support' =
          <<[current_settings_version |-> current_settings_version,
             returned |-> isSettingsVersionSupported(current_settings_version)]>>
    /\ UNCHANGED <<coreVars, tabVars, escaped, startupVars, promptVars, idVars>>

-----------------------------------------------------------------------------
(* SC_Plugin.onload(), loadSettings() and registerSC_Events() *)

\* The settings_version field of a settings file that has none.
Undefined == [text |-> "undefined", parts |-> <<>>]

\* What loadData() can read: <<>> stands for null (no settings file), else
\* the settings_version of the file.
DataFiles ==
    {<<>>} \cup
    {<<[settings_version |-> version]>> :
        version \in {Undefined, PriorTo070, Version(<<0, 10, 0>>), SettingsVersion,
                     Version(<<0, 11, 1>>), Version(<<0, 12, 0>>),
                     Version(<<1, 0, 0>>)}}

\* getDefaultSettings(is_new_installation).settings_version
getDefaultSettings(is_new_installation) ==
    IF is_new_installation THEN SettingsVersion ELSE PriorTo070

\* combineObjects(getDefaultSettings(false), this.settings).settings_version,
\* or the one of the default settings when there is no file.
allSettingsVersion(data) ==
    IF data = <<>> THEN getDefaultSettings(TRUE)
    ELSE IF data[1].settings_version = Undefined THEN getDefaultSettings(FALSE)
    ELSE data[1].settings_version

\* Mutation of isUnsupported: no result stops the loading.
isUnsupported_never(a_version_support) == FALSE

\* typeof version_support === "string"
isUnsupported(a_version_support) == a_version_support.type = "string"

\* The plugin before onload(): the settings file, and of every shell command
\* whether it can be added to the command palette and has SC_Events enabled.
Unloaded(data, commands, enable_events) ==
    [pc |-> "unloaded", data |-> data, commands |-> commands,
     enable_events |-> enable_events, settings_version |-> <<>>,
     loadSettings |-> "none", disabled |-> FALSE, notices |-> 0,
     migrations |-> 0, models |-> FALSE, obsidian_commands |-> {},
     settings_tab |-> FALSE, views |-> FALSE]

NoCommands == [id \in CommandIds |-> [palette |-> FALSE, events |-> FALSE]]

\* The workspace: whether its layout is ready, the callbacks waiting for
\* that, the timeouts set, the shell commands whose events are registered,
\* and the tasks of the event loop run so far.
Workspace(layoutReady) ==
    [layoutReady |-> layoutReady, layoutReadyCycle |-> 0, callbacks |-> <<>>,
     timeouts |-> <<>>, registered |-> {}, registrations |-> <<>>, cycle |-> 0]

\* A task of the event loop runs.
nextCycle(a_workspace) == [a_workspace EXCEPT !.cycle = @ + 1]

\* The callback given to onLayoutReady(): it sets a timeout of 0.
layoutReadyCallback(a_workspace, called_after_changing_settings) ==
    [a_workspace EXCEPT !.timeouts =
        Append(@, [called_after_changing_settings |-> called_after_changing_settings,
                   set_in |-> a_workspace.cycle])]

\* Mutation of registerSC_Events: the timeout is set at once, whether the
\* layout is ready or not.
registerSC_Events_withoutLayout(a_workspace, called_after_changing_settings) ==
    layoutReadyCallback(a_workspace, called_after_changing_settings)

\* SC_Plugin.registerSC_Events(): workspace.onLayoutReady() runs the callback
\* right away when the layout is ready, and keeps it until then otherwise.
registerSC_Events(a_workspace, called_after_changing_settings) ==
    IF a_workspace.layoutReady
    THEN layoutReadyCallback(a_workspace, called_after_changing_settings)
    ELSE [a_workspace EXCEPT
             !.callbacks = Append(@, called_after_changing_settings)]

RECURSIVE runCallbacks(_, _)
runCallbacks(a_workspace, callbacks) ==
    IF callbacks = <<>> THEN a_workspace
    ELSE runCallbacks(layoutReadyCallback(a_workspace, Head(callbacks)),
                      Tail(callbacks))

\* onload() up to its await of loadData().
onload ==
    /\ plugin.pc = "unloaded"
    /\ plugin' = [plugin EXCEPT !.pc = "loadData"]
    /\ workspace' = nextCycle(workspace)
    /\ UNCHANGED <<coreVars, tabVars, escaped, version_support, promptVars, idVars>>

\* loadData() settles: the rest of loadSettings() up to its return or its
\* await of disablePlugin(), and onload() up to its await of RunMigrations().
loadDataSettled ==
    /\ plugin.pc = "loadData"
    /\ LET settings_version == allSettingsVersion(plugin.data)
           a_version_support == isSettingsVersionSupported(settings_version)
       IN  IF isUnsupported(a_version_support)
           THEN plugin' = [plugin EXCEPT !.pc = "disablePlugin",
                                         !.settings_version = <<settings_version>>,
                                         !.notices = @ + 2]
           ELSE plugin' = [plugin EXCEPT !.pc = "RunMigrations",
                                         !.settings_version = <<settings_version>>,
                                         !.loadSettings = "true"]
    /\ workspace' = nextCycle(workspace)
    /\ UNCHANGED <<coreVars, tabVars, escaped, version_support, promptVars, idVars>>

\* disablePlugin() settles: loadSettings() returns false and onload() returns.
disablePluginSettled ==
    /\ plugin.pc = "disablePlugin"
    /\ plugin' = [plugin EXCEPT !.pc = "stopped", !.disabled = TRUE,
                                !.loadSettings = "false"]
    /\ workspace' = nextCycle(workspace)
    /\ UNCHANGED <<coreVars, tabVars, escaped, version_support, promptVars, idVars>>

\* RunMigrations() settles: the rest of onload().
RunMigrationsSettled ==
    /\ plugin.pc = "RunMigrations"
    /\ plugin' = [plugin EXCEPT
                     !.pc = "loaded",
                     !.migrations = @ + 1,
                     !.models = TRUE,
                     !.obsidian_commands =
                        {id \in CommandIds : plugin.commands[id].palette},
                     !.settings_tab = TRUE,
                     !.views = TRUE]
    /\ workspace' = IF plugin.enable_events
                    THEN registerSC_Events(nextCycle(workspace), FALSE)
                    ELSE nextCycle(workspace)
    /\ UNCHANGED <<coreVars, tabVars, escaped, version_support, promptVars, idVars>>

\* The settings of events are changed in the loaded plugin:
\* registerSC_Events(true).
eventSettingsChanged ==
    /\ plugin.pc = "loaded"
    /\ Len(workspace.callbacks) + Len(workspace.timeouts)
          + Len(workspace.registrations) < MaxCalls
    /\ workspace' = registerSC_Events(nextCycle(workspace), TRUE)
    /\ UNCHANGED <<coreVars, tabVars, escaped, version_support, plugin, promptVars, idVars>>

\* The layout of the workspace gets ready: the waiting callbacks are run.
layoutReady ==
    /\ ~workspace.layoutReady
    /\ LET now == nextCycle(workspace)
       IN  workspace' =
              runCallbacks([now EXCEPT !.layoutReady = TRUE,
                                       !.layoutReadyCycle = now.cycle,
                                       !.callbacks = <<>>],
                           workspace.callbacks)
    /\ UNCHANGED <<coreVars, tabVars, escaped, version_support, plugin, promptVars, idVars>>

\* A timeout fires: registerSC_Events() of every shell command registers
\* the events the command has enabled.
timeoutFires ==
    /\ workspace.timeouts # <<>>
    /\ LET now == nextCycle(workspace)
           timeout == Head(workspace.timeouts)
       IN  workspace' =
              [now EXCEPT
                 !.timeouts = Tail(@),
                 !.registered = @ \cup {id \in CommandIds : plugin.commands[id].events},
                 !.registrations =
                    Append(@, [cycle |-> now.cycle, set_in |-> timeout.set_in,
                               layoutReady |-> workspace.layoutReady])]
    /\ UNCHANGED <<coreVars, tabVars, escaped, version_support, plugin, promptVars, idVars>>

-----------------------------------------------------------------------------
(* PromptField *)

\* What a field's value is made of: text, a variable that can be resolved,
\* a variable that fails with one error message, and one that fails with two.
FieldTokens == {"x", "{{v}}", "{{w}}", "{{u}}"}

\* The values a field gets: empty, text only, with variables that resolve,
\* with variables that fail, before or after one that resolves.
FieldValues ==
    {<<>>, <<"x">>, <<"{{v}}">>, <<"{{w}}">>, <<"{{u}}">>, <<"x", "{{w}}">>,
     <<"{{v}}", "{{w}}">>, <<"{{v}}", "{{u}}">>, <<"{{u}}", "{{v}}">>}

\* The error messages of one variable reference.
errorMessagesOf(token) ==
    CASE token = "{{w}}" -> <<"w is not available">>
      [] token = "{{u}}" -> <<"u has no argument", "u is not available">>
      [] OTHER -> <<>>

isVariable(token) == token # "x"

failsToResolve(token) == token \in {"{{w}}", "{{u}}"}

\* The content with its resolved variables substituted.
RECURSIVE substituted(_)
substituted(content) ==
    IF content = <<>> THEN <<>>
    ELSE <<IF Head(content) = "{{v}}" THEN "value" ELSE Head(content)>>
            \o substituted(Tail(content))

\* The error messages of all variable references of the content, in order.
RECURSIVE allErrorMessages(_)
allErrorMessages(content) ==
    IF content = <<>> THEN <<>>
    ELSE errorMessagesOf(Head(content)) \o allErrorMessages(Tail(content))

\* parseVariables(plugin, content, ...): the ParsingResult of one field.
\* parsed_content is <<>> (null) when a variable failed, <<the content>>
\* otherwise.
parseVariables(content) ==
    LET failed == \E i \in 1..Len(content) : failsToResolve(content[i])
    IN  [original_content |-> content,
         succeeded |-> ~failed,
         parsed_content |-> IF failed THEN <<>> ELSE <<substituted(content)>>,
         error_messages |-> allErrorMessages(content),
         count_parsed_variables |->
             Cardinality({i \in 1..Len(content) :
                             isVariable(content[i]) /\ ~failsToResolve(content[i])})]

\* A PromptField after its construction: parsed_value has no initializer.
NewPromptField(required) ==
    [required |-> required, value |-> <<>>,
     parsed_value |-> [type |-> "undefined", value |-> <<>>],
     parsing_errors |-> <<>>, preview |-> <<>>,
     pending |-> <<>>, latest |-> <<>>]

\* The text valueHasChanged() gives to preview_setting.setDesc().
previewOf(parsing_result) ==
    IF parsing_result.count_parsed_variables = 0 THEN <<>>
    ELSE IF ~parsing_result.succeeded
         THEN IF Len(parsing_result.error_messages) > 0
              THEN <<parsing_result.error_messages[1]>>
              ELSE parsing_result.original_content
    ELSE parsing_result.parsed_content[1]

\* What valueHasChanged() assigns to this.parsing_errors.
parsingErrorsOf(parsing_result) ==
    IF ~parsing_result.succeeded THEN parsing_result.error_messages ELSE <<>>

\* What valueHasChanged() assigns to this.parsed_value.
parsedValueOf(parsing_result) ==
    IF ~parsing_result.succeeded THEN [type |-> "null", value |-> <<>>]
    ELSE [type |-> "string", value |-> parsing_result.parsed_content[1]]

\* The field gets a value (the default value, or what the user types), and
\* valueHasChanged() runs up to its await of parseVariables().
valueHasChanged(value) ==
    /\ Len(prompt_field.pending) < MaxCalls
    /\ prompt_field' = [prompt_field EXCEPT !.value = value,
                                            !.pending = Append(@, value)]
    /\ UNCHANGED <<coreVars, tabVars, escaped, version_support, startupVars, validation,
                   idVars>>

\* parseVariables() of a valueHasChanged() call settles: the rest of the call.
parseVariablesSettled(i) ==
    /\ i \in 1..Len(prompt_field.pending)
    /\ LET parsing_result == parseVariables(prompt_field.pending[i])
       IN  prompt_field' =
              [prompt_field EXCEPT
                 !.parsed_value = parsedValueOf(parsing_result),
                 !.parsing_errors = parsingErrorsOf(parsing_result),
                 !.preview = previewOf(parsing_result),
                 !.latest = <<parsing_result>>,
                 !.pending = SubSeq(@, 1, i - 1) \o SubSeq(@, i + 1, Len(@))]
    /\ UNCHANGED <<coreVars, tabVars, escaped, version_support, startupVars, validation,
                   idVars>>

\* PromptField_Text.isFilled()
isFilled(a_prompt_field) == Len(a_prompt_field.value) > 0

\* Mutation of validate: a field is valid when it is filled.
validate_filledOnly(a_prompt_field) == isFilled(a_prompt_field)

\* PromptField.validate()
validate(a_prompt_field) ==
    IF ~a_prompt_field.required THEN TRUE
    ELSE isFilled(a_prompt_field)

\* A caller (the prompt modal) validates the field.
validatePromptField ==
    /\ validation' = <<[required |-> prompt_field.required,
                        value |-> prompt_field.value,
                        returned |-> validate(prompt_field)]>>
    /\ UNCHANGED <<coreVars, tabVars, escaped, version_support, startupVars, prompt_field,
                   idVars>>

-----------------------------------------------------------------------------
(* generateNewShellCommandID() *)

\* An ID is a string of decimal digits, kept as the sequence of its digits.
\* String(number)
RECURSIVE String(_)
String(number) ==
    IF number < 10 THEN <<number>>
    ELSE String(number \div 10) \o <<number % 10>>

\* parseInt(string)
RECURSIVE parseInt(_)
parseInt(string) ==
    IF Len(string) = 1 THEN string[1]
    ELSE 10 * parseInt(SubSeq(string, 1, Len(string) - 1)) + string[Len(string)]

\* The loop over the existing IDs, in the order of the property names.
RECURSIVE newIdAfter(_, _)
newIdAfter(existing_ids, new_id) ==
    IF existing_ids = {} THEN new_id
    ELSE LET first == CHOOSE id \in existing_ids :
                         \A other \in existing_ids : parseInt(id) <= parseInt(other)
             existing_id == parseInt(first)
         IN  newIdAfter(existing_ids \ {first},
                        IF existing_id >= new_id THEN existing_id + 1 ELSE new_id)

\* Mutation of generateNewShellCommandID: the number of existing commands.
generateNewShellCommandID_count(existing_ids) == String(Cardinality(existing_ids))

\* generateNewShellCommandID() of SC_Plugin and of ShellCommandsPlugin
generateNewShellCommandID(existing_ids) == String(newIdAfter(existing_ids, 0))

\* SC_Plugin.newTShellCommand(), and createCommandField("new") of the
\* settings tab of ShellCommandsPlugin: a shell command is created under a
\* new ID.
newTShellCommand ==
    /\ LET shell_command_id == generateNewShellCommandID(shell_commands)
       IN  /\ parseInt(shell_command_id) <= MaxId
           /\ generated_ids' = <<[existing_ids |-> shell_commands,
                                  returned |-> shell_command_id]>>
           /\ shell_commands' = shell_commands \cup {shell_command_id}
    /\ UNCHANGED <<coreVars, tabVars, escaped, version_support, startupVars, promptVars>>

\* A shell command is deleted in the settings.
deleteShellCommand(shell_command_id) ==
    /\ shell_command_id \in shell_commands
    /\ shell_commands' = shell_commands \ {shell_command_id}
    /\ UNCHANGED <<coreVars, tabVars, escaped, version_support, startupVars, promptVars,
                   generated_ids>>

-----------------------------------------------------------------------------
(* ShellCommandExecutor.executeShellCommand(): the output handlers in use *)

\* The objects an execution works on. The output handler configurations that
\* the shell command holds are the objects 1 (stdout) and 2 (stderr); an
\* object created later gets the next reference.
configuredObjects(output_handlers) ==
    <<[handler |-> output_handlers["stdout"]],
      [handler |-> output_handlers["stderr"]]>>

\* this.t_shell_command.getOutputHandlers(): the configured objects themselves.
getOutputHandlers == [stdout |-> 1, stderr |-> 2]

\* cloneObject(object): a new object with the properties of the given one.
cloneObject(objects, reference) ==
    [objects |-> Append(objects, objects[reference]),
     reference |-> Len(objects) + 1]

\* The handler codes of the objects that the references lead to.
handlersOf(objects, references) ==
    [name \in StreamNames |-> objects[references[name]].handler]

\* Mutation of defineOutputChannels: the overriding channel is written to the
\* configured objects, without cloning them.
defineOutputChannels_withoutClone(objects, overriding_output_channel) ==
    IF overriding_output_channel # <<>>
    THEN [objects |-> [objects EXCEPT
                          ![getOutputHandlers.stdout].handler =
                              overriding_output_channel[1],
                          ![getOutputHandlers.stderr].handler =
                              overriding_output_channel[1]],
          outputHandlers |-> getOutputHandlers]
    ELSE [objects |-> objects, outputHandlers |-> getOutputHandlers]

\* "Define output channels": let outputHandlers = getOutputHandlers(), and
\* with an overriding_output_channel, clones of the two configurations whose
\* handler is the overriding channel.
defineOutputChannels(objects, overriding_output_channel) ==
    IF overriding_output_channel # <<>>
    THEN LET stdout == cloneObject(objects, getOutputHandlers.stdout)
             stderr == cloneObject(stdout.objects, getOutputHandlers.stderr)
             cloned == [stdout |-> stdout.reference, stderr |-> stderr.reference]
         IN  [objects |-> [stderr.objects EXCEPT
                              ![cloned.stdout].handler = overriding_output_channel[1],
                              ![cloned.stderr].handler = overriding_output_channel[1]],
              outputHandlers |-> cloned]
    ELSE [objects |-> objects, outputHandlers |-> getOutputHandlers]

\* executeShellCommand(shell_command_parsing_result, overriding_output_channel)
\* of a shell command that is not empty, in a working directory that is a
\* folder: the output handlers it defines and hands to handleBufferedOutput()
\* or handleRealtimeOutput(), and what the shell command holds afterwards.
executeWithOutputChannel(overriding_output_channel) ==
    /\ Len(outputHandlers) < MaxCalls
    /\ LET objects == configuredObjects(t_shell_command.output_handlers)
           defined == defineOutputChannels(objects, overriding_output_channel)
           handlers == handlersOf(defined.objects, defined.outputHandlers)
       IN  /\ outputHandlers' =
                 Append(outputHandlers,
                        [overriding_output_channel |-> overriding_output_channel,
                         configured |-> handlersOf(objects, getOutputHandlers),
                         mode |-> attachedOutputHandling(
                                      t_shell_command.output_handling_mode),
                         handlers |-> handlers,
                         channels |-> startRealtimeOutputHandling(handlers)])
           /\ t_shell_command' =
                 [t_shell_command EXCEPT !.output_handlers =
                     handlersOf(defined.objects, getOutputHandlers)]
    /\ UNCHANGED <<settings, vaultAbsolutePath, file_system, shell, translated,
                   execVars, raised, notificationVars, realtimeVars, paletteVars,
                   previews>>
    /\ UNCHANGED <<escaped, version_support, startupVars, promptVars, idVars,
                   error_message_duration, duration_edit>>

-----------------------------------------------------------------------------
(* ShellCommandsSettingsTab.display(): the "Error message duration" field *)

TypedDigits == {"0", "1", "8"}

\* The digits the user types: none, a few, and the numbers at the upper limit.
TypedNumbers ==
    UNION {[1..n -> TypedDigits] : n \in 0..MaxLen}
        \cup {<<"1", "8", "0">>, <<"1", "8", "1">>}

\* What the user types into the field: digits, with or without a space, a
\* sign or a letter in front, and a decimal fraction or a letter behind.
\* (No "x": parseInt() reads a text that starts with 0x as hexadecimal.)
TypedTexts ==
    {before \o number \o after :
        before \in {<<>>, <<" ">>, <<"-">>, <<"a">>},
        number \in TypedNumbers,
        after \in {<<>>, <<".", "8">>, <<"a">>}}

digitValue(character) ==
    CASE character = "0" -> 0
      [] character = "1" -> 1
      [] OTHER -> 8

\* parseInt(): the leading white space is skipped.
RECURSIVE trimmedStart(_)
trimmedStart(text) ==
    IF text # <<>> /\ text[1] = " " THEN trimmedStart(Tail(text)) ELSE text

\* parseInt(): the digits a text starts with, as a number, given the number
\* read so far; whatever follows the digits is ignored.
RECURSIVE leadingNumber(_, _)
leadingNumber(text, number) ==
    IF text # <<>> /\ text[1] \in TypedDigits
    THEN leadingNumber(Tail(text), 10 * number + digitValue(text[1]))
    ELSE number

\* parseInt(duration_string) of a typed text: <<>> stands for NaN, else the
\* integer that the text starts with after white space and a sign.
parseIntTyped(duration_string) ==
    LET text == trimmedStart(duration_string)
        negative == text # <<>> /\ text[1] = "-"
        unsigned == IF negative THEN Tail(text) ELSE text
    IN  IF unsigned = <<>> \/ unsigned[1] \notin TypedDigits
        THEN <<>>
        ELSE <<IF negative THEN 0 - leadingNumber(unsigned, 0)
               ELSE leadingNumber(unsigned, 0)>>

\* Mutation of isDuration: the lower limit is not checked.
isDuration_upperLimitOnly(duration) ==
    duration # <<>> /\ duration[1] <= MaxErrorMessageDuration

\* duration >= 1 && duration <= 180, false for NaN.
isDuration(duration) ==
    /\ duration # <<>>
    /\ duration[1] >= MinErrorMessageDuration
    /\ duration[1] <= MaxErrorMessageDuration

\* onChange of the field: called every time the user types in it.
durationChanged(duration_string) ==
    /\ LET duration == parseIntTyped(duration_string)
       IN  IF isDuration(duration)
           THEN /\ error_message_duration' = duration[1]
                /\ duration_edit' = <<[duration |-> duration,
                                       before |-> error_message_duration,
                                       saveSettings |-> TRUE]>>
           ELSE /\ UNCHANGED error_message_duration
                /\ duration_edit' = <<[duration |-> duration,
                                       before |-> error_message_duration,
                                       saveSettings |-> FALSE]>>
    /\ UNCHANGED <<coreVars, escaped, version_support, startupVars, promptVars,
                   idVars, outputHandlers>>

-----------------------------------------------------------------------------
(* Initial states *)

AllVersions == [{"darwin", "linux", "win32"} -> {<<>>, <<"x">>}]

DefaultVersions == [p \in {"darwin", "linux", "win32"} |-> <<"x">>]

OutputHandlerCodes == {"ignore", "notification", "modal"}

\* The values of the optional parameter overriding_output_channel: <<>> is
\* undefined, else the code of an output channel.
OverridingOutputChannels == {<<>>} \cup {<<code>> : code \in OutputHandlerCodes}

DefaultHandlers == [name \in StreamNames |-> "notification"]

Configurations(confirms, counts, ignores, modes, versions, handlers) ==
    [confirm_execution : confirms,
     preactions : counts,
     ignore_error_codes : ignores,
     output_handling_mode : modes,
     platform_specific_shell_commands : versions,
     output_handlers : handlers]

ExecutionNotificationModes == {"disabled", "quick", "permanent", "if-long"}

ExecDirs == {<<>>, <<"dir">>, <<SEP, "abs">>}

ShellDirs == {<<>>, <<"dir">>, <<"dir", SEP, "sub">>, <<"dir", ALTSEP, "sub">>,
              <<"..">>, <<".", SEP, "dir">>, <<SEP>>, <<SEP, "abs">>,
              <<SEP, "abs", SEP, "dir">>}

Vaults == {<<SEP, "vault">>, <<SEP, "home", SEP, "vault">>,
           <<SEP, "home", ALTSEP, "vault">>}

\* Nothing has been asked of the other parts of the plugin.
\* No execution has defined its output handlers, the settings tab was not
\* edited: DEFAULT_SETTINGS.error_message_duration.
TabIdle ==
    /\ outputHandlers = <<>>
    /\ error_message_duration = DefaultErrorMessageDuration
    /\ duration_edit = <<>>

LaterIdle ==
    /\ escaped = <<>>
    /\ version_support = <<>>
    /\ plugin = Unloaded(<<>>, NoCommands, FALSE)
    /\ workspace = Workspace(FALSE)
    /\ prompt_field = NewPromptField(FALSE)
    /\ validation = <<>>
    /\ shell_commands = {}
    /\ generated_ids = <<>>
    /\ TabIdle

\* No shell command has been executed or previewed.
CoreIdle ==
    /\ pc = "idle"
    /\ parsing_process = [state |-> "none", supplied |-> FALSE]
    /\ preaction_pipeline = <<>>
    /\ next_step = 1
    /\ pipeline_value = TRUE
    /\ in_progress = {}
    /\ steps = <<>>
    /\ shell_command_parsing_result = <<>>
    /\ notices = <<>>
    /\ calls = NoCalls
    /\ child_process = <<>>
    /\ dispatched = <<>>
    /\ thrown = <<>>
    /\ translated = <<>>
    /\ raised = <<>>
    /\ notification = NoNotification
    /\ timer = "none"
    /\ streams = [name \in StreamNames |->
                     [buffer |-> <<>>, paused |-> FALSE, listening |-> FALSE,
                      state |-> "open"]]
    /\ outputChannels = [name \in {} |-> "ignore"]
    /\ handling = <<>>
    /\ events = <<>>
    /\ plugin_version = "SC_Plugin"
    /\ cached_parsing_processes = NoEntries
    /\ preparsed_shell_command_configurations = NoEntries
    /\ parsing_processes = <<>>
    /\ attempts = NoAttempts
    /\ obsidian_commands = [id \in CommandIds |-> "unparsed"]
    /\ previews = [id \in CommandIds |-> "none"]

Idle == CoreIdle /\ LaterIdle

\* One plain configuration of the plugin, of a shell command and of its shell.
Plain ==
    /\ settings = [working_directory |-> <<>>,
                   execution_notification_mode |-> "disabled",
                   preview_variables_in_command_palette |-> FALSE]
    /\ vaultAbsolutePath = <<SEP, "vault">>
    /\ file_system = [d \in {getWorkingDirectory(settings, vaultAbsolutePath)}
                         |-> "directory"]
    /\ t_shell_command \in Configurations({FALSE}, {0}, {{}}, {"buffered"},
                                          {DefaultVersions}, {DefaultHandlers})
    /\ shell = [kind |-> "native", supports_path_augmentation |-> TRUE,
                path_augmentation |-> <<>>, escaper |-> "ShEscaper"]

InitWith(configurations, dirs, vaults, directory_kinds, kinds, supports, notifications) ==
    /\ settings \in [working_directory : dirs,
                     execution_notification_mode : notifications,
                     preview_variables_in_command_palette : {FALSE}]
    /\ vaultAbsolutePath \in vaults
    /\ file_system \in [{getWorkingDirectory(settings, vaultAbsolutePath)}
                          -> directory_kinds]
    /\ t_shell_command \in configurations
    /\ shell \in [kind : kinds, supports_path_augmentation : supports,
                  path_augmentation : {<<>>}, escaper : {"ShEscaper"}]
    /\ Idle

\* Every shape of the preaction pipeline.
Init ==
    InitWith(Configurations(BOOLEAN, 0..MaxPreactions, {{}}, {"buffered"},
                            {DefaultVersions}, {DefaultHandlers}),
             {<<>>}, {<<SEP, "vault">>}, {"directory"}, {"native"}, {TRUE}, {"disabled"})

\* Every configuration executeShellCommand() reads.
InitExecute ==
    InitWith(Configurations({TRUE}, {1}, {{}}, {"buffered", "realtime"}, AllVersions, {DefaultHandlers}),
             ExecDirs, {<<SEP, "vault">>}, DirectoryKinds, {"native"}, {TRUE}, {"disabled"})

\* Every list of ignored exit codes.
InitBuffered ==
    InitWith(Configurations({TRUE}, {1}, SUBSET (0..MaxExitCode), {"buffered"},
                            {DefaultVersions}, {DefaultHandlers}),
             {<<>>}, {<<SEP, "vault">>}, {"directory"}, {"native"}, {TRUE}, {"disabled"})

\* Every pair of output handlers of a process handled in real time.
InitRealtime ==
    InitWith(Configurations({FALSE}, {0}, {{}}, {"realtime"}, {DefaultVersions},
                            [StreamNames -> OutputHandlerCodes]),
             {<<>>}, {<<SEP, "vault">>}, {"directory"}, {"native"}, {TRUE},
             {"disabled"})

\* Every shell, output handling mode and notification mode of a spawn.
InitSpawn ==
    InitWith(Configurations({TRUE}, {1}, {{}}, {"buffered", "realtime"},
                            {DefaultVersions}, {DefaultHandlers}),
             {<<>>}, {<<SEP, "vault">>}, {"directory"}, {"native"}, BOOLEAN,
             ExecutionNotificationModes)

\* Both plugin classes with their commands registered, the preview of
\* variables on or off, no command palette opened yet.
InitPalette ==
    /\ settings \in [working_directory : {<<>>},
                     execution_notification_mode : {"disabled"},
                     preview_variables_in_command_palette : BOOLEAN]
    /\ vaultAbsolutePath = <<SEP, "vault">>
    /\ file_system = [d \in {getWorkingDirectory(settings, vaultAbsolutePath)}
                         |-> "directory"]
    /\ t_shell_command \in Configurations({FALSE}, {0}, {{}}, {"buffered"},
                                          {DefaultVersions}, {DefaultHandlers})
    /\ shell = [kind |-> "native", supports_path_augmentation |-> TRUE,
                path_augmentation |-> <<>>, escaper |-> "ShEscaper"]
    /\ pc = "idle"
    /\ parsing_process = [state |-> "none", supplied |-> FALSE]
    /\ preaction_pipeline = <<>>
    /\ next_step = 1
    /\ pipeline_value = TRUE
    /\ in_progress = {}
    /\ steps = <<>>
    /\ shell_command_parsing_result = <<>>
    /\ notices = <<>>
    /\ calls = NoCalls
    /\ child_process = <<>>
    /\ dispatched = <<>>
    /\ thrown = <<>>
    /\ translated = <<>>
    /\ raised = <<>>
    /\ notification = NoNotification
    /\ timer = "none"
    /\ streams = [name \in StreamNames |->
                     [buffer |-> <<>>, paused |-> FALSE, listening |-> FALSE,
                      state |-> "open"]]
    /\ outputChannels = [name \in {} |-> "ignore"]
    /\ handling = <<>>
    /\ events = <<>>
    /\ plugin_version \in {"SC_Plugin", "ShellCommandsPlugin"}
    /\ cached_parsing_processes = NoEntries
    /\ preparsed_shell_command_configurations = NoEntries
    /\ parsing_processes = <<>>
    /\ attempts = NoAttempts
    /\ obsidian_commands = [id \in CommandIds |-> "unparsed"]
    /\ previews = [id \in CommandIds |-> "none"]
    /\ LaterIdle

\* Every input of Shell.getWorkingDirectory().
InitShell ==
    InitWith(Configurations({FALSE}, {0}, {{}}, {"buffered"}, {DefaultVersions}, {DefaultHandlers}),
             ShellDirs, Vaults, {"directory"}, {"native", "subsystem"}, {TRUE}, {"disabled"})

\* Every settings file, with or without events enabled, the layout of the
\* workspace ready or not when the plugin is loaded.
InitStartup ==
    /\ Plain
    /\ CoreIdle
    /\ escaped = <<>>
    /\ version_support = <<>>
    /\ \E data \in DataFiles, enable_events \in BOOLEAN,
          commands \in [CommandIds -> [palette : BOOLEAN, events : BOOLEAN]] :
          /\ data = <<>> => commands = NoCommands
          /\ plugin = Unloaded(data, commands, enable_events)
    /\ workspace \in {Workspace(FALSE), Workspace(TRUE)}
    /\ prompt_field = NewPromptField(FALSE)
    /\ validation = <<>>
    /\ shell_commands = {}
    /\ generated_ids = <<>>
    /\ TabIdle

\* A prompt field, required or not, after its construction.
InitPrompt ==
    /\ Plain
    /\ CoreIdle
    /\ escaped = <<>>
    /\ version_support = <<>>
    /\ plugin = Unloaded(<<>>, NoCommands, FALSE)
    /\ workspace = Workspace(FALSE)
    /\ prompt_field \in {NewPromptField(required) : required \in BOOLEAN}
    /\ validation = <<>>
    /\ shell_commands = {}
    /\ generated_ids = <<>>
    /\ TabIdle

\* No shell command exists yet.
InitIds == Plain /\ Idle

\* A shell command with any output handlers, of either output handling mode.
InitOutput ==
    /\ settings = [working_directory |-> <<>>,
                   execution_notification_mode |-> "disabled",
                   preview_variables_in_command_palette |-> FALSE]
    /\ vaultAbsolutePath = <<SEP, "vault">>
    /\ file_system = [d \in {getWorkingDirectory(settings, vaultAbsolutePath)}
                         |-> "directory"]
    /\ t_shell_command \in Configurations({FALSE}, {0}, {{}}, {"buffered", "realtime"},
                                          {DefaultVersions},
                                          [StreamNames -> OutputHandlerCodes])
    /\ shell = [kind |-> "native", supports_path_augmentation |-> TRUE,
                path_augmentation |-> <<>>, escaper |-> "ShEscaper"]
    /\ Idle

\* Every escaper a shell can have.
InitEscape ==
    /\ settings = [working_directory |-> <<>>,
                   execution_notification_mode |-> "disabled",
                   preview_variables_in_command_palette |-> FALSE]
    /\ vaultAbsolutePath = <<SEP, "vault">>
    /\ file_system = [d \in {getWorkingDirectory(settings, vaultAbsolutePath)}
                         |-> "directory"]
    /\ t_shell_command \in Configurations({FALSE}, {0}, {{}}, {"buffered"},
                                          {DefaultVersions}, {DefaultHandlers})
    /\ shell \in [kind : {"native"}, supports_path_augmentation : {TRUE},
                  path_augmentation : {<<>>}, escaper : Escapers]
    /\ Idle

-----------------------------------------------------------------------------
(* Specifications *)

Next ==
    \/ \E supplied \in BOOLEAN : doPreactionsAndExecuteShellCommand(supplied)
    \/ \E succeeded \in BOOLEAN : processSettled(succeeded)
    \/ pipelineStep
    \/ \E execution_confirmed \in BOOLEAN : confirmationAnswered(execution_confirmed)
    \/ \E proceed \in BOOLEAN : preactionPerformed(proceed)
    \/ pipelineSettled
    \/ \E succeeded \in BOOLEAN, content \in Strings, wrapper \in Wrappers,
          augmentation \in Augmentations, stdin \in StdinContents :
          processRestSettled(succeeded, content, wrapper, augmentation, stdin)
    \/ spawnReturnedNull
    \/ \E message \in SpawnErrors : spawnThrew(message)
    \/ \E stdin_is_null \in BOOLEAN, stream_is_null \in BOOLEAN :
          spawned(stdin_is_null, stream_is_null)
    \/ \E exitCode \in ExitCodes, stdout_chunk \in Chunks, stderr_chunk \in Chunks :
          bufferedProcessExit(exitCode, stdout_chunk, stderr_chunk)

Spec == Init /\ [][Next]_vars

\* Every callback that can run does run: the promise continuations are run by
\* the event loop, and the user answers every modal that is open.
SpecAnswered == Init /\ [][Next]_vars /\ WF_vars(Next)

SpecExecute == InitExecute /\ [][Next]_vars

SpecBuffered == InitBuffered /\ [][Next]_vars

\* One execution attempt that takes a parsed, non-empty shell command without
\* Preactions up to a spawned process, followed by the events of the process
\* and of its streams.
NextRealtime ==
    \/ doPreactionsAndExecuteShellCommand(TRUE)
    \/ pipelineSettled
    \/ processRestSettled(TRUE, <<"x">>, <<>>, <<>>, <<>>)
    \/ spawned(FALSE, FALSE)
    \/ \E outputStreamName \in StreamNames : outputArrives(outputStreamName)
    \/ \E outputStreamName \in StreamNames : streamEnds(outputStreamName)
    \/ \E outputStreamName \in StreamNames : readable(outputStreamName)
    \/ \E i \in 1..(MaxChunks + 2) : handleRealtimeSettled(i)
    \/ \E exitCode \in ExitCodes : realtimeProcessExit(exitCode)

SpecRealtime == InitRealtime /\ [][NextRealtime]_vars

\* The execution attempt of one non-empty shell command with every PATH
\* augmentation and stdin content, followed by the events of the process
\* and of the notification.
NextSpawn ==
    \/ \E supplied \in BOOLEAN : doPreactionsAndExecuteShellCommand(supplied)
    \/ \E succeeded \in BOOLEAN : processSettled(succeeded)
    \/ pipelineStep
    \/ \E execution_confirmed \in BOOLEAN : confirmationAnswered(execution_confirmed)
    \/ \E proceed \in BOOLEAN : preactionPerformed(proceed)
    \/ pipelineSettled
    \/ \E succeeded \in BOOLEAN, augmentation \in Augmentations,
          stdin \in StdinContents :
          processRestSettled(succeeded, <<"x">>, <<>>, augmentation, stdin)
    \/ spawnReturnedNull
    \/ \E message \in SpawnErrors : spawnThrew(message)
    \/ \E stdin_is_null \in BOOLEAN, stream_is_null \in BOOLEAN :
          spawned(stdin_is_null, stream_is_null)
    \/ \E exitCode \in ExitCodes, stdout_chunk \in Chunks, stderr_chunk \in Chunks :
          bufferedProcessExit(exitCode, stdout_chunk, stderr_chunk)
    \/ \E exitCode \in ExitCodes : realtimeProcessExit(exitCode)
    \/ notificationTimeout
    \/ requestTerminate

SpecSpawn == InitSpawn /\ [][NextSpawn]_vars

\* The callbacks of the registered commands and what follows them.
NextPalette ==
    \/ \E id \in CommandIds, can_show \in BOOLEAN, succeeded \in BOOLEAN :
          paletteOpening(id, can_show, succeeded)
    \/ \E id \in CommandIds, succeeded \in BOOLEAN : paletteExecution(id, succeeded)
    \/ \E id \in CommandIds : eventExecution(id)
    \/ \E p \in 1..MaxProcesses, outcome \in AttemptOutcomes : attemptContinues(p, outcome)
    \/ togglePreview
    \/ \E id \in CommandIds, shell_command_parsed \in BOOLEAN, alias_parsed \in BOOLEAN :
          legacyPaletteOpening(id, shell_command_parsed, alias_parsed)
    \/ \E id \in CommandIds, parsed \in BOOLEAN : legacyPaletteExecution(id, parsed)

SpecPalette == InitPalette /\ [][NextPalette]_vars

\* The checkCallback of the registered commands alone: command palette
\* openings and executions through the palette, with the preview setting
\* switched in between.
NextCheckCallback ==
    \/ \E id \in CommandIds, can_show \in BOOLEAN, succeeded \in BOOLEAN :
          paletteOpening(id, can_show, succeeded)
    \/ \E id \in CommandIds, succeeded \in BOOLEAN : paletteExecution(id, succeeded)
    \/ togglePreview
    \/ \E id \in CommandIds, shell_command_parsed \in BOOLEAN, alias_parsed \in BOOLEAN :
          legacyPaletteOpening(id, shell_command_parsed, alias_parsed)
    \/ \E id \in CommandIds, parsed \in BOOLEAN : legacyPaletteExecution(id, parsed)

SpecCheckCallback == InitPalette /\ [][NextCheckCallback]_vars

\* The ways an execution attempt starts and what they do to the cache: the
\* callbacks of the command palette, and executions started elsewhere.
NextCache ==
    \/ NextCheckCallback
    \/ \E id \in CommandIds : eventExecution(id)

SpecCache == InitPalette /\ [][NextCache]_vars

\* Executions of one shell command, with and without an overriding channel.
NextOutput ==
    \E overriding_output_channel \in OverridingOutputChannels :
        executeWithOutputChannel(overriding_output_channel)

SpecOutput == InitOutput /\ [][NextOutput]_vars

\* Edits of the "Error message duration" field.
NextDuration ==
    \E duration_string \in TypedTexts : durationChanged(duration_string)

SpecDuration == InitIds /\ [][NextDuration]_vars

NextShell == shellGetWorkingDirectory

\* The plugin is loaded, the layout of the workspace gets ready, timeouts
\* fire, and the settings of events are changed.
NextStartup ==
    \/ onload
    \/ loadDataSettled
    \/ disablePluginSettled
    \/ RunMigrationsSettled
    \/ eventSettingsChanged
    \/ layoutReady
    \/ timeoutFires

SpecStartup == InitStartup /\ [][NextStartup]_vars

\* The value of a prompt field changes, the parsings settle in any order,
\* and the field is validated.
NextPrompt ==
    \/ \E value \in FieldValues : valueHasChanged(value)
    \/ \E i \in 1..MaxCalls : parseVariablesSettled(i)
    \/ validatePromptField

SpecPrompt == InitPrompt /\ [][NextPrompt]_vars

\* Shell commands are created and deleted.
NextIds ==
    \/ newTShellCommand
    \/ \E number \in 0..MaxId : deleteShellCommand(String(number))

SpecIds == InitIds /\ [][NextIds]_vars

\* Settings versions are checked.
NextVersion ==
    \E current_settings_version \in SettingsVersionStrings :
        checkSettingsVersion(current_settings_version)

SpecVersion == InitIds /\ [][NextVersion]_vars

\* Values are escaped for a shell.
NextEscape == \E rawValue \in RawValues : shellEscapeValue(rawValue)

SpecEscape == InitEscape /\ [][NextEscape]_vars

SpecShell == InitShell /\ [][NextShell]_vars

-----------------------------------------------------------------------------
(* Claims *)

Range(seq) == {seq[i] : i \in 1..Len(seq)}

StepWasStarted == calls.confirmation_modal + calls.perform > 0

PhaseOneFailed == parsing_process.state = "failed" /\ calls.processRest = 0

ProcessRestFailed == parsing_process.state = "failed" /\ calls.processRest > 0

ExecuteWasCalled == shell_command_parsing_result # <<>>

ResolvedWorkingDirectory == getWorkingDirectory(settings, vaultAbsolutePath)

NonEmptyPlatforms ==
    {p \in DOMAIN t_shell_command.platform_specific_shell_commands :
        t_shell_command.platform_specific_shell_commands[p] # <<>>}

\* C1: once a step of the pipeline has resolved to 'do not proceed', it is the
\* last step performed: no later step is started, processRest() is not called,
\* nothing is spawned and no error notice is shown.
C1_ShortCircuit ==
    \A k \in 1..Len(steps) :
        ~steps[k].proceed =>
            /\ k = Len(steps)
            /\ in_progress \subseteq {steps[k].step}
            /\ calls.processRest = 0
            /\ calls.spawnChildProcess = 0
            /\ notices = <<>>

\* C2: at most one step of the pipeline is in progress at any time, and
\* processRest() is called, and a process spawned, only after every step of the
\* pipeline has resolved to 'proceed'.
C2_AllProceedBeforeProcessRest ==
    /\ Cardinality(in_progress) <= 1
    /\ (calls.processRest > 0 \/ calls.spawnChildProcess > 0) =>
          /\ Len(steps) = Len(preaction_pipeline)
          /\ \A k \in 1..Len(steps) : steps[k].proceed

C4_DeclinedConfirmation ==
    (\E k \in 1..Len(steps) :
        steps[k].step = ConfirmationStep /\ ~steps[k].proceed) =>
            /\ calls.processRest = 0
            /\ calls.spawnChildProcess = 0
            /\ child_process = <<>>
            /\ notices = <<>>

C4_Witness ==
    /\ t_shell_command.confirm_execution
    /\ t_shell_command.preactions > 0
    /\ steps = <<[step |-> ConfirmationStep, proceed |-> FALSE]>>

\* C5: when processRest() has failed, the parsing errors are displayed and
\* executeShellCommand() is not called: the working directory is not checked,
\* the PATH augmentation is not passed to the shell and nothing is spawned.
C5_ProcessRestFailed ==
    ProcessRestFailed =>
        /\ notices = <<displayErrorMessages>>
        /\ calls.executeShellCommand = 0
        /\ calls.existsSync = 0
        /\ calls.setEnvironmentVariablePathAugmentation = 0
        /\ shell.path_augmentation = <<>>
        /\ calls.spawnChildProcess = 0
        /\ child_process = <<>>

C5_Witness ==
    /\ ProcessRestFailed
    /\ pc = "failed"
    /\ \A k \in 1..Len(steps) : steps[k].proceed

\* C6: when the unwrapped content is empty after stripping whitespace,
\* executeShellCommand() shows exactly one error and spawns nothing, whatever
\* the wrapper; the error is 'The shell command is empty' when no platform has
\* a non-empty version, and names the other platforms when only platforms
\* other than the current one have a version.
C6_EmptyShellCommand ==
    (/\ ExecuteWasCalled
     /\ \A i \in DOMAIN shell_command_parsing_result[1].unwrappedShellCommandContent :
           shell_command_parsing_result[1].unwrappedShellCommandContent[i] = " ") =>
        /\ Len(notices) = 1
        /\ calls.spawnChildProcess = 0
        /\ child_process = <<>>
        /\ NonEmptyPlatforms = {} =>
              notices[1].text = "The shell command is empty. :("
        /\ (NonEmptyPlatforms # {} /\ CurrentPlatform \notin NonEmptyPlatforms) =>
              /\ notices[1].text = "The shell command does not have a version for"
              /\ notices[1].names[1] = getPlatformName(CurrentPlatform)
              /\ \A p \in DOMAIN t_shell_command.platform_specific_shell_commands :
                    p \in NonEmptyPlatforms <=>
                        getPlatformName(p) \in
                            Range(SubSeq(notices[1].names, 3, Len(notices[1].names)))

C6_Witness ==
    /\ ExecuteWasCalled
    /\ shell_command_parsing_result[1].unwrappedShellCommandContent = <<" ", " ">>
    /\ shell_command_parsing_result[1].wrappedShellCommandContent = <<"w", " ", " ">>
    /\ NonEmptyPlatforms = {"darwin", "win32"}
    /\ Len(notices) = 1

\* C7: when the working directory does not exist, or is not a directory,
\* executeShellCommand() shows an error that names the directory, and does not
\* spawn, write stdin or attach any output handling.
C7_WorkingDirectory ==
    (calls.existsSync > 0 /\ file_system[ResolvedWorkingDirectory] # "directory") =>
        /\ Len(notices) = 1
        /\ notices[1].dir = ResolvedWorkingDirectory
        /\ notices[1].text =
              IF file_system[ResolvedWorkingDirectory] = "missing"
              THEN "Working directory does not exist: "
              ELSE "Working directory exists but is not a folder: "
        /\ calls.spawnChildProcess = 0
        /\ calls.stdin_write = 0
        /\ calls.handleBufferedOutput = 0
        /\ calls.handleRealtimeOutput = 0
        /\ child_process = <<>>

C7_Witness ==
    /\ calls.existsSync > 0
    /\ file_system[ResolvedWorkingDirectory] = "file"
    /\ settings.working_directory = <<"dir">>
    /\ shell_command_parsing_result[1].stdinContent # <<>>
    /\ pc = "failed"

\* C8: Shell.getWorkingDirectory() returns the translated vault root for an
\* empty setting, the translated join of the vault root and the setting for a
\* relative setting, and the translated setting for an absolute setting.
C8_AlwaysTranslated ==
    translated # <<>> =>
        translated[1] =
            IF settings.working_directory = <<>>
            THEN translateAbsolutePath(shell, vaultAbsolutePath)
            ELSE IF Head(settings.working_directory) # SEP
            THEN translateAbsolutePath(shell,
                     join(vaultAbsolutePath, settings.working_directory))
            ELSE translateAbsolutePath(shell, settings.working_directory)

\* C9: a buffered process that exits with code null or > 0 is dispatched as a
\* success with an empty stderr and its stdout when the code is on the list of
\* ignored codes, and otherwise as an error with its exit code and its whole
\* stderr; a null exit code is never ignored.
C9_BufferedError ==
    (dispatched # <<>>
        /\ (child_process[1].exitCode = Null \/ child_process[1].exitCode > 0)) =>
        /\ Len(dispatched) = 1
        /\ dispatched[1].stdout = child_process[1].stdout
        /\ IF child_process[1].exitCode # Null
              /\ child_process[1].exitCode \in t_shell_command.ignore_error_codes
           THEN /\ dispatched[1].branch = "ignored"
                /\ dispatched[1].stderr = ""
           ELSE /\ dispatched[1].branch = "error"
                /\ dispatched[1].exitCode = child_process[1].exitCode
                /\ dispatched[1].stderr = child_process[1].stderr

C9_Witness ==
    /\ dispatched # <<>>
    /\ child_process[1].exitCode = 1
    /\ 1 \in t_shell_command.ignore_error_codes
    /\ child_process[1].stderr # ""
    /\ child_process[1].stdout # ""

\* C10: a buffered process that exits with code 0 is dispatched as a success
\* with exit code 0; its stderr is handed over unchanged unless 0 is on the
\* list of ignored codes, and then as the empty string.
C10_BufferedSuccess ==
    (dispatched # <<>> /\ child_process[1].exitCode = 0) =>
        /\ Len(dispatched) = 1
        /\ dispatched[1].exitCode = 0
        /\ dispatched[1].branch \notin {"error", "ignored"}
        /\ dispatched[1].stdout = child_process[1].stdout
        /\ dispatched[1].stderr =
              IF 0 \in t_shell_command.ignore_error_codes THEN ""
              ELSE child_process[1].stderr

C10_Witness ==
    /\ dispatched # <<>>
    /\ child_process[1].exitCode = 0
    /\ child_process[1].stderr # ""
    /\ 0 \in t_shell_command.ignore_error_codes

\* The calls of one operation that the OutputChannels have received.
EventsOf(op) == SelectSeq(events, LAMBDA e : e.op = op)

RealtimeProcess ==
    child_process # <<>> /\ child_process[1].output_handling = "realtime"

\* C11: while the chunk of one 'readable' event is being dispatched, from the
\* pause of both streams until handleRealtime() has completed and both streams
\* are resumed, no other chunk of stdout or stderr is dispatched: at most one
\* handleRealtime() call is in progress at any time.
C11_OneDispatchAtATime ==
    RealtimeProcess => Len(handling) <= 1

\* C12: on the exit of a process handled in real time, endRealtime() has been
\* called exactly once for each distinct output handler code among the
\* attached streams, hence once when stdout and stderr share a handler.
C12_EndRealtimeOncePerHandler ==
    (RealtimeProcess /\ child_process[1].exited) =>
        LET attached == DOMAIN outputChannels
            codes == {t_shell_command.output_handlers[name] : name \in attached}
            ended == EventsOf("endRealtime")
        IN  /\ Len(ended) = Cardinality(codes)
            /\ \A code \in codes :
                  Cardinality({i \in 1..Len(ended) : ended[i].channel = code}) = 1
            /\ \A i \in 1..Len(ended) :
                  ended[i].exitCode = child_process[1].exitCode

C12_Witness ==
    /\ RealtimeProcess
    /\ child_process[1].exited
    /\ t_shell_command.output_handlers["stdout"] = "modal"
    /\ t_shell_command.output_handlers["stderr"] = "modal"
    /\ Len(EventsOf("endRealtime")) = 1
    /\ Len(EventsOf("handleRealtime")) = MaxChunks

\* The cache of the plugin class in use holds no preparsed execution.
CacheIsEmpty ==
    \A id \in CommandIds :
        IF plugin_version = "SC_Plugin"
        THEN entryOf(cached_parsing_processes, id) = <<>>
        ELSE entryOf(preparsed_shell_command_configurations, id) = <<>>

\* A shell command is executed through the command palette callback.
PaletteExecution ==
    \/ \E id \in CommandIds, succeeded \in BOOLEAN : paletteExecution(id, succeeded)
    \/ \E id \in CommandIds, parsed \in BOOLEAN : legacyPaletteExecution(id, parsed)

\* An execution attempt of a shell command starts, in one way or another.
ExecutionAttempt ==
    \/ PaletteExecution
    \/ \E id \in CommandIds : eventExecution(id)

\* C14 as stated: the plugin-wide cache of preparsed parsing processes is
\* empty after every execution attempt of a shell command, whichever way the
\* attempt was started and whichever command was executed.
C14_EmptyAfterEveryAttempt ==
    [][ExecutionAttempt => CacheIsEmpty']_vars

\* C14, amended: the cache is empty after every execution attempt made through
\* the command palette callback (palette selection or hotkey), whether the
\* attempt went on or failed in parsing, and whichever command was executed.
C14_EmptyAfterPaletteExecution ==
    [][PaletteExecution => CacheIsEmpty']_vars

C14_Witness ==
    /\ plugin_version = "SC_Plugin"
    /\ \E q \in 1..Len(parsing_processes) :
          /\ parsing_processes[q].shell_command_id = 1
          /\ parsing_processes[q].via = "palette"
    /\ \E p \in 1..Len(parsing_processes) :
          /\ parsing_processes[p].shell_command_id = 2
          /\ parsing_processes[p].state = "first_pass_done"
          /\ parsing_processes[p].attempts = 0
    /\ CacheIsEmpty

\* C15: over any sequence of command palette openings and executions, a
\* ParsingProcess object is consumed by at most one execution attempt.
C15_ConsumedAtMostOnce ==
    \A p \in 1..Len(parsing_processes) : parsing_processes[p].attempts <= 1

C15_Witness ==
    /\ plugin_version = "SC_Plugin"
    /\ \E p \in 1..Len(parsing_processes), q \in 1..Len(parsing_processes) :
          /\ p # q
          /\ parsing_processes[p].shell_command_id = parsing_processes[q].shell_command_id
          /\ parsing_processes[p].via = "palette"
          /\ parsing_processes[q].via = "palette"
          /\ parsing_processes[p].process = 2

\* C16: each ParsingProcess has process() invoked at most once and
\* processRest() at most once, in that order, over any sequence of command
\* palette previews followed by executions.
C16_EachPhaseAtMostOnce ==
    \A p \in 1..Len(parsing_processes) :
        /\ parsing_processes[p].process <= 1
        /\ parsing_processes[p].processRest <= 1
        /\ parsing_processes[p].processRest > 0 => parsing_processes[p].process > 0

\* C24: in the command palette callback of ShellCommandsPlugin, a command is
\* executed from a preparsed configuration only if the most recent preview
\* parsing of that command succeeded with the preview of variables enabled;
\* never after a preview that failed or that was made with the setting off.
C24_PreparsedOnlyAfterSuccessfulPreview ==
    [][\A id \in CommandIds, parsed \in BOOLEAN :
          /\ legacyPaletteExecution(id, parsed)
          /\ entryOf(preparsed_shell_command_configurations, id) # <<>>
          => previews[id] = "succeeded"]_vars

\* The command palette is being opened: checkCallback(true) of either plugin
\* class, for any command.
PaletteOpening ==
    \/ \E id \in CommandIds, can_show \in BOOLEAN, succeeded \in BOOLEAN :
          paletteOpening(id, can_show, succeeded)
    \/ \E id \in CommandIds, shell_command_parsed \in BOOLEAN,
          alias_parsed \in BOOLEAN :
          legacyPaletteOpening(id, shell_command_parsed, alias_parsed)

\* C25: opening the command palette never executes a shell command. No
\* execution attempt starts, no Preaction is run, processRest() is not called
\* and no process is spawned, whatever the preview setting: the parsing
\* processes that existed are left as they were, and one created for the
\* preview has gone through nothing but phase one.
C25_OpeningNeverExecutes ==
    [][PaletteOpening =>
          /\ UNCHANGED <<attempts, execVars>>
          /\ \A p \in 1..Len(parsing_processes') :
                IF p <= Len(parsing_processes)
                THEN parsing_processes'[p] = parsing_processes[p]
                ELSE /\ parsing_processes'[p].attempts = 0
                     /\ parsing_processes'[p].processRest = 0
                     /\ parsing_processes'[p].stage = "none"]_vars

C25_Witness ==
    /\ plugin_version = "SC_Plugin"
    /\ settings.preview_variables_in_command_palette
    /\ \A id \in CommandIds :
          /\ obsidian_commands[id] = "parsed"
          /\ entryOf(cached_parsing_processes, id) # <<>>
          /\ LET p == entryOf(cached_parsing_processes, id)[1]
             IN  /\ parsing_processes[p].shell_command_id = id
                 /\ parsing_processes[p].process = 1
                 /\ parsing_processes[p].processRest = 0
                 /\ parsing_processes[p].attempts = 0

\* C26: after a command palette opening of SC_Plugin, the cache holds a
\* parsing process for a shown command if and only if the preview is enabled
\* and phase one of that opening succeeded, and it is the parsing process of
\* that opening; otherwise the entry of the command is undefined and the
\* command carries its unparsed name.
C26_CachedIffPreviewSucceeded ==
    [][\A id \in CommandIds, succeeded \in BOOLEAN :
          paletteOpening(id, TRUE, succeeded) =>
             LET entry == entryOf(cached_parsing_processes', id)
             IN  /\ entry # <<>> <=>
                       (settings.preview_variables_in_command_palette /\ succeeded)
                 /\ entry # <<>> =>
                       /\ entry[1] = Len(parsing_processes) + 1
                       /\ parsing_processes'[entry[1]].shell_command_id = id
                       /\ parsing_processes'[entry[1]].state = "first_pass_done"
                       /\ obsidian_commands'[id] = "parsed"
                 /\ entry = <<>> => obsidian_commands'[id] = "unparsed"]_vars

C26_Witness ==
    /\ plugin_version = "SC_Plugin"
    /\ entryOf(cached_parsing_processes, 1) = <<>>
    /\ obsidian_commands[1] = "unparsed"
    /\ entryOf(cached_parsing_processes, 2) = <<2>>
    /\ obsidian_commands[2] = "parsed"
    /\ Len(parsing_processes) = 2
    /\ parsing_processes[1].shell_command_id = 1
    /\ parsing_processes[1].state = "first_pass_done"
    /\ parsing_processes[1].attempts = 0
    /\ parsing_processes[2].shell_command_id = 2
    /\ parsing_processes[2].state = "first_pass_done"

TooLongText == "Shell command execution failed because it's too long: "

TooLongNotices == {i \in 1..Len(notices) : notices[i].text = TooLongText}

\* The messages of SpawnErrors in which 'spawn', whitespace and 'ENAMETOOLONG'
\* follow each other, in any letter case.
TooLongMessages == {<<"spawn", " ", "ENAMETOOLONG">>,
                    <<"Error:", " ", "Spawn", " ", "\t", "enametoolong">>}

\* C13: an exception raised while spawning or setting the handlers up whose
\* message matches 'spawn ENAMETOOLONG' in any letter case gives the 'too
\* long' error notice and is not propagated; every other exception, a missing
\* stdin, stdout or stderr stream included, is rethrown unchanged and gives no
\* 'too long' notice.
C13_TooLongOrRethrown ==
    \A i \in 1..Len(raised) :
        IF raised[i] \in TooLongMessages
        THEN /\ thrown = <<>>
             /\ TooLongNotices # {}
             /\ pc = "failed"
        ELSE /\ thrown = <<raised[i]>>
             /\ TooLongNotices = {}
             /\ pc = "threw"

C13_Witness ==
    /\ raised = <<<<"Error:", " ", "Spawn", " ", "\t", "enametoolong">>>>
    /\ thrown = <<>>
    /\ TooLongNotices # {}

ParsedAugmentation ==
    shell_command_parsing_result[1].environment_variable_path_augmentation

\* C17: a non-empty PATH augmentation is passed to the shell when the shell
\* implements setEnvironmentVariablePathAugmentation; when it does not, the
\* augmentation is ignored, no error notice is shown and the spawn still
\* takes place.
C17_PathAugmentation ==
    (ExecuteWasCalled /\ Len(ParsedAugmentation) > 0) =>
        /\ calls.spawnChildProcess = 1
        /\ pc = "spawning" => notices = <<>>
        /\ IF shell.supports_path_augmentation
           THEN /\ shell.path_augmentation = ParsedAugmentation
                /\ calls.setEnvironmentVariablePathAugmentation = 1
           ELSE /\ shell.path_augmentation = <<>>
                /\ calls.setEnvironmentVariablePathAugmentation = 0

C17_Witness ==
    /\ ExecuteWasCalled
    /\ Len(ParsedAugmentation) > 0
    /\ ~shell.supports_path_augmentation
    /\ pc = "running"
    /\ notices = <<>>

StdinContent == shell_command_parsing_result[1].stdinContent

StdinWrittenAndClosed ==
    /\ child_process[1].stdin = "ended"
    /\ child_process[1].written = StdinContent
    /\ calls.stdin_write = 1
    /\ calls.stdin_end = 1

StdinUntouched ==
    /\ child_process[1].stdin # "ended"
    /\ child_process[1].written = <<>>
    /\ calls.stdin_write = 0
    /\ calls.stdin_end = 0

\* C18 as stated: after a successful spawn the stdin content is written and
\* stdin is closed if and only if stdinContent is defined; when it is
\* undefined nothing is written and stdin is not closed.
C18_WrittenIffDefined ==
    child_process # <<>> =>
        IF StdinContent # <<>> THEN StdinWrittenAndClosed ELSE StdinUntouched

\* C18, amended: after a successful spawn the stdin content is written and
\* stdin is closed if and only if stdinContent is defined and the process has
\* a stdin stream; when it is defined and the process has no stdin stream an
\* Error is thrown and nothing is written; when it is undefined nothing is
\* written and stdin is not closed.
C18_WrittenIffDefinedAndPresent ==
    child_process # <<>> =>
        IF StdinContent # <<>> /\ child_process[1].stdin # "null"
        THEN StdinWrittenAndClosed
        ELSE /\ StdinUntouched
             /\ StdinContent # <<>> => thrown = <<StdinIsNull>>

C18_Witness ==
    /\ child_process # <<>>
    /\ StdinContent = <<"in">>
    /\ StdinWrittenAndClosed
    /\ pc = "running"

ConfiguredMode == t_shell_command.output_handling_mode

AttachedOnce(mode) ==
    /\ child_process[1].output_handling = mode
    /\ calls.handleBufferedOutput = (IF mode = "buffered" THEN 1 ELSE 0)
    /\ calls.handleRealtimeOutput = (IF mode = "realtime" THEN 1 ELSE 0)

\* C19 as stated: every spawned process has exactly one of the two output
\* handling modes attached, the configured one; never both, never neither.
C19_ExactlyOneMode ==
    child_process # <<>> => AttachedOnce(ConfiguredMode)

\* C19, amended: every spawned process whose set-up raised no exception has
\* exactly one of the two output handling modes attached, the configured one,
\* never both; a process whose stdin (with stdin content defined), stdout or
\* stderr stream is missing gets an Error thrown and neither mode attached.
C19_ExactlyOneModeUnlessThrown ==
    child_process # <<>> =>
        IF raised = <<>>
        THEN AttachedOnce(ConfiguredMode)
        ELSE /\ AttachedOnce("none")
             /\ raised \in {<<StdinIsNull>>, <<StreamIsNull>>}
             /\ thrown = raised

C19_Witness ==
    /\ child_process # <<>>
    /\ raised = <<>>
    /\ ConfiguredMode = "realtime"
    /\ AttachedOnce("realtime")

\* C20: with the 'if-long' notification mode no notification is ever shown
\* for a process that has exited or been killed before the delay elapsed, and
\* a notification shown after the delay is hidden when the process exits, so
\* no notification is on show for an exited process; with the mode 'disabled'
\* no execution notification is ever shown.
C20_IfLongNotification ==
    /\ (settings.execution_notification_mode = "if-long"
            /\ notification.state = "shown")
          => ~child_process[1].exited
    /\ settings.execution_notification_mode = "disabled"
          => notification.state = "none"

\* C21: Shell.escapeValue() returns the raw value unchanged, for every value,
\* when getEscaper() returns null, and otherwise exactly the result of the
\* escaper's escape().
C21_RawOrEscaped ==
    \A i \in 1..Len(escaped) :
        IF getEscaper(shell, escaped[i].rawValue) = <<>>
        THEN escaped[i].returned = escaped[i].rawValue
        ELSE escaped[i].returned = escape(shell.escaper, escaped[i].rawValue)

C21_Witness ==
    /\ Len(escaped) = 2
    /\ shell.escaper = "none"
    /\ escaped[1].rawValue = <<" ", "'">>
    /\ escaped[2].rawValue = <<"x">>

\* One version is newer than another: at the first part where they differ,
\* its number is the greater one.
Newer(v1, v2) ==
    \E i \in 1..3 :
        /\ v1[i] > v2[i]
        /\ \A j \in 1..(i - 1) : v1[j] = v2[j]

\* C27: isSettingsVersionSupported() returns true for 'prior-to-0.7.0', for
\* a version equal to SettingsVersion and for every older version, and it
\* returns an error message exactly when the version is strictly newer than
\* SettingsVersion.
C27_ErrorIffNewer ==
    \A i \in 1..Len(version_support) :
        LET version == version_support[i].current_settings_version
            returned == version_support[i].returned
        IN  /\ returned.type \in {"boolean", "string"}
            /\ returned.type = "boolean" => returned.value = "true"
            /\ returned.type = "string" <=>
                  (/\ version.text # "prior-to-0.7.0"
                   /\ Newer(version.parts, SettingsVersion.parts))

C27_Witness ==
    /\ version_support # <<>>
    /\ version_support[1].current_settings_version = Version(<<0, 12, 0>>)
    /\ version_support[1].returned.type = "string"

\* The settings file has a settings_version newer than SettingsVersion.
NewerSettingsFile ==
    /\ plugin.data # <<>>
    /\ plugin.data[1].settings_version.text = "major.minor.patch"
    /\ Newer(plugin.data[1].settings_version.parts, SettingsVersion.parts)

\* C22: if the loaded settings file has a settings_version newer than
\* SettingsVersion, loadSettings() disables the plugin and returns false and
\* onload() stops: no migration is run, no shell command is registered to the
\* command palette, no event is registered and no settings tab is added.
C22_NewerSettingsStopOnload ==
    NewerSettingsFile =>
        /\ plugin.pc \in {"unloaded", "loadData", "disablePlugin", "stopped"}
        /\ plugin.loadSettings # "true"
        /\ plugin.pc = "stopped" => plugin.disabled /\ plugin.loadSettings = "false"
        /\ plugin.migrations = 0
        /\ plugin.obsidian_commands = {}
        /\ workspace.callbacks = <<>>
        /\ workspace.timeouts = <<>>
        /\ workspace.registered = {}
        /\ ~plugin.settings_tab

C22_Witness ==
    /\ NewerSettingsFile
    /\ plugin.pc = "stopped"
    /\ plugin.enable_events
    /\ plugin.commands[1].palette
    /\ plugin.commands[1].events
    /\ workspace.layoutReady

\* C29: registerSC_Events() registers no event of any shell command before
\* the layout of the workspace is ready; a registration happens only in a
\* later cycle of the event loop than the one in which the layout-ready
\* callback ran.
C29_RegisteredAfterLayoutReady ==
    /\ workspace.registered # {} => workspace.layoutReady
    /\ \A i \in 1..Len(workspace.registrations) :
          LET registration == workspace.registrations[i]
          IN  /\ registration.layoutReady
              /\ registration.set_in >= workspace.layoutReadyCycle
              /\ registration.cycle > registration.set_in

C29_Witness ==
    /\ workspace.registered = {1}
    /\ workspace.layoutReadyCycle > 0
    /\ Len(workspace.registrations) = 2
    /\ workspace.registrations[1].set_in = workspace.layoutReadyCycle

\* The ParsingResult of the parsing that settled last.
LatestParsing == prompt_field.latest[1]

C30_ValidIffFilledOrOptional ==
    \A i \in 1..Len(validation) :
        IF ~validation[i].required THEN validation[i].returned
        ELSE validation[i].returned <=> validation[i].value # <<>>

C30_Witness ==
    /\ validation # <<>>
    /\ validation[1].required
    /\ validation[1].value = <<>>
    /\ ~validation[1].returned

\* The greatest of some numbers.
Maximum(numbers) == CHOOSE m \in numbers : \A n \in numbers : n <= m

\* C28: generateNewShellCommandID() returns "0" when there are no shell
\* commands, otherwise the maximum existing numeric ID plus one as a string,
\* so that the returned ID is never the ID of an existing shell command,
\* after any sequence of creations and deletions.
C28_NewIdIsMaxPlusOne ==
    \A i \in 1..Len(generated_ids) :
        LET existing_ids == generated_ids[i].existing_ids
            returned == generated_ids[i].returned
        IN  /\ existing_ids = {} => returned = <<0>>
            /\ existing_ids # {} =>
                  returned = String(Maximum({parseInt(id) : id \in existing_ids}) + 1)
            /\ returned \notin existing_ids

C28_Witness ==
    /\ generated_ids # <<>>
    /\ generated_ids[1].existing_ids = {<<1>>, <<9>>}
    /\ generated_ids[1].returned = <<1, 0>>

\* C31: an execution with an overriding output channel directs stdout and
\* stderr to that channel for this execution only: the output handlers the
\* shell command is configured with stay as they were, and every execution
\* without an override, later ones included, uses the configured handlers.
C31_OverrideForThisExecutionOnly ==
    \A k \in 1..Len(outputHandlers) :
        LET execution == outputHandlers[k]
            original == outputHandlers[1].configured
        IN  /\ execution.overriding_output_channel # <<>> =>
                  \A name \in StreamNames :
                      execution.handlers[name] = execution.overriding_output_channel[1]
            /\ execution.overriding_output_channel = <<>> =>
                  execution.handlers = original
            /\ execution.configured = original
            /\ t_shell_command.output_handlers = original

C31_Witness ==
    /\ Len(outputHandlers) = 2
    /\ outputHandlers[1].overriding_output_channel = <<"modal">>
    /\ outputHandlers[1].configured = [stdout |-> "notification", stderr |-> "ignore"]
    /\ outputHandlers[1].handlers = [stdout |-> "modal", stderr |-> "modal"]
    /\ outputHandlers[2].overriding_output_channel = <<>>
    /\ outputHandlers[2].handlers = [stdout |-> "notification", stderr |-> "ignore"]

\* C32: after any sequence of edits of the "Error message duration" field
\* the setting is an integer within 1..180; an input that does not parse to
\* an integer within 1..180 leaves the setting as it was and does not save
\* the settings, any other input is taken over and saved.
C32_DurationStaysInRange ==
    /\ error_message_duration \in MinErrorMessageDuration..MaxErrorMessageDuration
    /\ duration_edit # <<>> =>
          LET edit == duration_edit[1]
              parses == /\ edit.duration # <<>>
                        /\ edit.duration[1] \in
                              MinErrorMessageDuration..MaxErrorMessageDuration
          IN  /\ ~parses => /\ error_message_duration = edit.before
                            /\ ~edit.saveSettings
              /\ parses => /\ error_message_duration = edit.duration[1]
                           /\ edit.saveSettings

C32_Witness ==
    /\ duration_edit # <<>>
    /\ duration_edit[1].before = 180
    /\ duration_edit[1].duration = <<181>>
    /\ error_message_duration = 180
    /\ ~duration_edit[1].saveSettings

\* The user has answered the confirmation modal of the execution attempt.
ConfirmationWasAnswered ==
    \E k \in 1..Len(steps) : steps[k].step = ConfirmationStep

\* The callback chained to the preaction pipeline has run: it went on to
\* processRest() in the branch that executes, or it cancelled the execution.
PipelineCallbackRan == calls.processRest > 0 \/ pc = "cancelled"

\* C33: every answer to the confirmation modal, confirming or declining,
\* settles the confirmation step of the preaction pipeline, so that the
\* execution attempt eventually reaches the branch that executes the command
\* or the branch that cancels it: no attempt stays pending forever after the
\* user has answered.
C33_AnsweredAttemptSettles == ConfirmationWasAnswered ~> PipelineCallbackRan

\* C34: for a process handled in real time, endRealtime() of an output channel
\* is called only after every handleRealtime() call of that channel has
\* completed: once it has been called, no chunk is handed to the channel and
\* none is still being handled by it, however the 'readable' events and the
\* 'exit' event interleave.
C34_EndRealtimeAfterAllHandling ==
    RealtimeProcess =>
        \A i \in 1..Len(events) :
            events[i].op = "endRealtime" =>
                /\ \A j \in (i + 1)..Len(events) :
                      ~(/\ events[j].op = "handleRealtime"
                        /\ events[j].channel = events[i].channel)
                /\ \A h \in 1..Len(handling) :
                      handling[h].channel # events[i].channel

====
